---- MODULE Spec2Model ----
(***************************************************************************)
(* Model of the websocket session manager of paradex-rs (src/src/ws.rs):   *)
(* the WebsocketManager handle (subscribe / unsubscribe / stop), the       *)
(* command queue, and the manager task WebsocketManager::_reader with its  *)
(* subscription bookkeeping, the socket it reads and writes, and the       *)
(* callbacks it invokes.                                                   *)
(***************************************************************************)
EXTENDS Integers, Sequences, FiniteSets, TLC

\* ------------------------------------------------------------------ bounds
MaxIds == 2        \* subscribe calls (Identifiers allocated) in one run
MaxQueue == 1      \* commands waiting in the queue
MaxTicks == 3      \* heartbeat intervals counted on one socket without a pong
MaxCalls == 1      \* subscribe calls in a run checked under fairness or with a longer queue
MaxPending == 2    \* commands waiting in the queue in a run checked for their order
MaxThreads == 2    \* threads calling subscribe at the same time
MaxTasks == 2      \* tasks calling jwt() or refresh_jwt() at the same time
MaxIntervals == 1  \* whole update intervals that pass in a run
MaxFractions == 2  \* ticks of the clock that pass in a run besides
MaxEntries == 2    \* entries the domain-hash cache holds (SizedCache::with_size)
MaxChains == 3     \* chain ids the domain hash is asked for

\* ------------------------------------------------------------ Option<String>
None == <<>>
Some(s) == <<s>>

\* ------------------------------------------------------------------ Channel
\* The Channel values the callers subscribe to.  Two of them have the same
\* wire name ("funding_data.ALL").
Channels ==
  { [tag |-> "BBO", market_symbol |-> "BTC"],
    [tag |-> "FundingData", market_symbol |-> None],
    [tag |-> "FundingData", market_symbol |-> Some("ALL")] }

OrAll(market_symbol) ==
  IF market_symbol # None THEN market_symbol[1] ELSE "ALL"

channel_name(c) ==
  CASE c.tag = "MarketSummary" -> "markets_summary"
    [] c.tag = "BBO" -> "bbo." \o c.market_symbol
    [] c.tag = "Trades" -> "trades." \o c.market_symbol
    [] c.tag = "OrderBook" ->
         "order_book." \o c.market_symbol \o "."
           \o (IF c.channel_name # None THEN c.channel_name[1] ELSE "snapshot")
           \o "@15@" \o c.refresh_rate
           \o (IF c.price_tick # None THEN "@" \o c.price_tick[1] ELSE "")
    [] c.tag = "OrderBookDeltas" -> "order_book." \o c.market_symbol \o ".deltas"
    [] c.tag = "FundingData" -> "funding_data." \o OrAll(c.market_symbol)
    [] c.tag = "Orders" -> "orders." \o OrAll(c.market_symbol)
    [] c.tag = "Fills" -> "fills." \o OrAll(c.market_symbol)
    [] c.tag = "Position" -> "positions"
    [] c.tag = "Account" -> "account"
    [] c.tag = "BalanceEvents" -> "balance_events"
    [] c.tag = "FundingPayments" -> "funding_payments." \o OrAll(c.market_symbol)

WireNames == { channel_name(c) : c \in Channels }

\* ------------------------------------------------------------------ Message
\* A Message is its variant and, for a data variant, the decoded payload.
Msg(variant, payload) == [variant |-> variant, payload |-> payload]
Connected == Msg("Connected", "")
Disconnected == Msg("Disconnected", "")
Unsubscribed == Msg("Unsubscribed", "")

\* The payload of a notification: absent, not decodable as the channel's
\* type, or decodable.
Payloads == {"missing", "bad", "good"}

\* Mutant of parse_notification: the payload is passed on undecoded.
parse_notification_unchecked(data, function) == Msg(function, data)

parse_notification(data, function) ==
  IF data # "missing"
    THEN IF data = "good" THEN Msg(function, data)
                          ELSE Msg("Error", "JsonParseError")
    ELSE Msg("Error", "JsonParseError")

to_message(c, data) ==
  CASE c.tag = "MarketSummary" -> parse_notification(data, "MarketSummary")
    [] c.tag = "BBO" -> parse_notification(data, "BBO")
    [] c.tag = "Trades" -> parse_notification(data, "Trades")
    [] c.tag = "OrderBook" -> parse_notification(data, "OrderBook")
    [] c.tag = "OrderBookDeltas" -> parse_notification(data, "OrderBookDeltas")
    [] c.tag = "FundingData" -> parse_notification(data, "FundingData")
    [] c.tag = "Orders" -> parse_notification(data, "Orders")
    [] c.tag = "Fills" -> parse_notification(data, "Fills")
    [] c.tag = "Position" -> parse_notification(data, "Position")
    [] c.tag = "Account" -> parse_notification(data, "Account")
    [] c.tag = "BalanceEvents" -> parse_notification(data, "BalanceEvent")
    [] c.tag = "FundingPayments" -> parse_notification(data, "FundingPayments")

\* ------------------------------------------------------------------- state
VARIABLES
  current_id,                \* WebsocketManager.current_id (AtomicU64)
  receiver,                  \* the unbounded command queue (sub_sender -> receiver)
  private,                   \* rest_client is Some(client) with client.is_private()
  subscriptions_by_id,       \* Identifier -> wire name
  subscriptions_by_channel,  \* wire name -> (connected, list of (Channel, Identifier, callback))
  pc,                        \* where the manager task is
  ready,                     \* connection.next() is ready: the socket has a read outcome
  last,                      \* the step of the manager task this transition took, if any
  wire,                      \* the requests that step handed to the socket, in order
  events,                    \* the callback invocations of that step, in order: (callback, Message)
  subscribes,                \* wire name -> subscribe requests handed to the current socket
                             \* since the last unsubscribe request for the name
  confirmed,                 \* the wire names of the records for which a success response
                             \* was read on the current socket
  ticks,                     \* heartbeat intervals that elapsed on the current socket since
                             \* it was opened or a pong frame was last read from it
  dropped,                   \* every WebsocketManager (every sub_sender) has been dropped
  \* -- WebsocketManager::subscribe run by several threads (src/src/ws.rs)
  subscribers,               \* thread -> where it is in subscribe, and its identifier
  allocated,                 \* the identifiers in the order current_id.fetch_add gave them
  \* -- rest::Client and its clones (src/src/rest.rs)
  now,                       \* SystemTime::now(), in ticks of 1 / PerSecond seconds
  jwt_lock,                  \* Client.jwt: the (SystemTime, String) and the write guard's owner
  clients,                   \* task -> where it is in jwt() or refresh_jwt(), and its locals
  issued,                    \* the bearer tokens POST /v1/auth has answered with so far
  \* -- message signing (src/src/message.rs)
  cache,                     \* DOMAIN_HASH: the SizedCache, most recently used entry first
  call,                      \* the last call of a function: its name, its arguments and what
                             \* it returned (domain_hash, sign_order, ..; Client::request on
                             \* a response; Channel's ==; SubscriptionSpec::extract)
  seen                       \* arguments -> what the first call with them returned

ws_vars ==
  << current_id, receiver, private, subscriptions_by_id,
     subscriptions_by_channel, pc, ready, last, wire, events,
     subscribes, confirmed, ticks, dropped >>

handle_vars == << dropped >>
subscriber_vars == << subscribers, allocated >>
rest_vars == << now, jwt_lock, clients, issued >>
message_vars == << cache, call, seen >>

\* The state of the components the websocket manager does not touch.
other_vars == << handle_vars, subscriber_vars, rest_vars, message_vars >>

vars == << ws_vars, other_vars >>

caller_vars == << current_id, receiver >>
book_vars == << subscriptions_by_id, subscriptions_by_channel >>

Identifiers == 0 .. (MaxIds - 1)

\* A callback is identified by the Identifier it was registered with: every
\* Subscribe command carries its own boxed closure.
Callbacks == Identifiers

\* ------------------------------------------------------------ map helpers
Insert(m, k, v) == [x \in (DOMAIN m) \cup {k} |-> IF x = k THEN v ELSE m[x]]
\* Mutant of Remove: the key stays in the map.
Remove_kept(m, k) == m

Remove(m, k) == [x \in (DOMAIN m) \ {k} |-> m[x]]
EmptyMap == [x \in {} |-> 0]

\* Mutant of RemoveAt: the element stays in the list.
RemoveAt_kept(s, i) == s

RemoveAt(s, i) == SubSeq(s, 1, i - 1) \o SubSeq(s, i + 1, Len(s))

Call(callback, m) == [callback |-> callback, message |-> m]

\* Mutant of CallAll: only the first callback of the list is called.
CallAll_first(subs, m) ==
  [i \in 1 .. (IF subs = << >> THEN 0 ELSE 1) |-> Call(subs[i].callback, m)]

\* for (_, _, callback) in subs.iter() { callback(&m) }
CallAll(subs, m) == [i \in 1 .. Len(subs) |-> Call(subs[i].callback, m)]

Value(connected, subs) == [connected |-> connected, subs |-> subs]
Entry(channel, identifier, callback) ==
  [channel |-> channel, id |-> identifier, callback |-> callback]

Step(op, id, name) == [op |-> op, id |-> id, name |-> name]

\* ---------------------------------------------------------------- requests
request_channel(method, name, identifier, ok) ==
  [method |-> method, channel |-> name, id |-> identifier, ok |-> ok]

auth_request(ok) ==
  [method |-> "auth", channel |-> "", id |-> 0, ok |-> ok]

\* wire name -> the number of subscribe requests for it among requests.
Count(requests) ==
  [n \in WireNames |->
     Cardinality({ i \in 1 .. Len(requests) :
                     requests[i].method = "subscribe" /\ requests[i].channel = n })]

\* All orders in which a HashMap may iterate the keys S.
Orderings(S) ==
  { s \in [1 .. Cardinality(S) -> S] :
      \A i, j \in 1 .. Cardinality(S) : i # j => s[i] # s[j] }

\* WebsocketManager::new, before the spawned task has run.
new ==
  /\ current_id = 0
  /\ receiver = << >>
  /\ private \in BOOLEAN
  /\ subscriptions_by_id = EmptyMap
  /\ subscriptions_by_channel = EmptyMap
  /\ pc = "connect"
  /\ ready = FALSE
  /\ last = Step("new", -1, "")
  /\ wire = << >>
  /\ events = << >>
  /\ subscribes = [n \in WireNames |-> 0]
  /\ confirmed = {}
  /\ ticks = 0
  /\ dropped = FALSE

\* No thread is inside subscribe.
no_subscribers ==
  /\ subscribers = << >>
  /\ allocated = << >>

\* No task uses the rest client.
no_clients ==
  /\ now = 0
  /\ jwt_lock = << >>
  /\ clients = << >>
  /\ issued = 0

\* Nothing is signed.
no_calls ==
  /\ cache = << >>
  /\ call = << >>
  /\ seen = << >>

Init == new /\ no_subscribers /\ no_clients /\ no_calls

\* ------------------------------------------------------------ the handle
Subscribe(channel, callback, identifier) ==
  [op |-> "Subscribe", channel |-> channel, callback |-> callback, id |-> identifier]
Unsubscribe(identifier) == [op |-> "Unsubscribe", id |-> identifier]
Stop == [op |-> "Stop"]

\* Mutant of closed: the queue does not take commands during an outage.
closed_in_outage == pc \in {"done", "reconnect"}

\* The receiver is dropped: the task has returned.
closed == pc = "done"

\* UnboundedSender::send: fails once the receiver is dropped.
send(operation) ==
  IF ~closed THEN receiver' = Append(receiver, operation)
             ELSE receiver' = receiver

\* What the call returns: .map_err(|e| Error::WebSocketSend(..))?, then Ok.
result == IF ~closed THEN "Ok" ELSE "WebSocketSend"

\* The step of a caller, with what the call returned.
Returned(r) == [op |-> "none", id |-> -1, name |-> "", result |-> r]

\* A call of the handle is no step of the manager task.
returned ==
  /\ last' = Returned(result)
  /\ wire' = << >>
  /\ events' = << >>

manager_vars ==
  << private, other_vars, subscriptions_by_id, subscriptions_by_channel, pc, ready, subscribes,
     confirmed, ticks >>

\* A step of the peer or of the clock is no step of the manager task.
no_step ==
  /\ last' = Step("none", -1, "")
  /\ wire' = << >>
  /\ events' = << >>

subscribe(channel) ==
  /\ current_id' = current_id + 1
  /\ send(Subscribe(channel, current_id, current_id))
  /\ returned
  /\ UNCHANGED manager_vars

unsubscribe(identifier) ==
  /\ send(Unsubscribe(identifier))
  /\ returned
  /\ UNCHANGED << current_id, manager_vars >>

stop ==
  /\ send(Stop)
  /\ returned
  /\ UNCHANGED << current_id, manager_vars >>

\* The calls of the handle's users, in a run of at most ids subscribe calls
\* and at most queue commands waiting.
Callers(ids, queue) ==
  \/ \E channel \in Channels :
       current_id < ids /\ Len(receiver) < queue /\ subscribe(channel)
  \/ \E identifier \in Identifiers :
       Len(receiver) < queue /\ unsubscribe(identifier)
  \/ Len(receiver) < queue /\ stop

\* ------------------------------------------------------------- the socket
Frame(kind, channel, data) == [kind |-> kind, channel |-> channel, data |-> data]

\* What one read of the socket can yield: a text frame holding a notification,
\* a success response or an error response, a text frame that is neither, a
\* ping, a pong, another frame (binary, close), a transport error, or the
\* end of the stream.  The "channel" member of a notification or of a result is
\* None when it is absent or not a string.
FrameChannels == {None} \cup { Some(n) : n \in WireNames }
Frames ==
  { Frame("Notification", Some(n), d) : n \in WireNames, d \in Payloads }
    \cup { Frame("Notification", None, "good") }
    \cup { Frame("Success", c, "") : c \in FrameChannels }
    \cup { Frame(k, None, "") :
              k \in {"Error", "Malformed", "Ping", "Pong", "Other", "Err", "Eof"} }

\* The peer (or the transport) makes a read outcome ready on the current
\* socket.  What it holds is seen when the manager reads it.
SocketReady ==
  /\ pc = "select"
  /\ ~ready
  /\ ready' = TRUE
  /\ no_step
  /\ UNCHANGED << caller_vars, private, other_vars, ticks, book_vars, pc, subscribes,
                  confirmed >>

\* A write on the socket (connection.send) succeeds or fails; a failure is
\* only logged.  A request records whether its write succeeded.
WriteOutcomes == BOOLEAN

\* ----------------------------------------------------------------- _connect
\* Mutant of connect_retry: the loop gives up after a failed attempt.
connect_retry_gives_up ==
  /\ pc \in {"connect", "reconnect"}
  /\ pc' = "done"
  /\ last' = Step("connect_retry", -1, "")
  /\ wire' = << >>
  /\ events' = << >>
  /\ UNCHANGED << caller_vars, private, other_vars, ticks, book_vars, ready, subscribes,
                  confirmed >>

\* connect_async fails: the loop sleeps one second and tries again.  The
\* step carries the parity of its place in a row of failed attempts, so that
\* an attempt after another is a step of its own.
connect_retry ==
  /\ pc \in {"connect", "reconnect"}
  /\ last' = Step("connect_retry",
                  IF last.op = "connect_retry" THEN 1 - last.id ELSE 0, "")
  /\ wire' = << >>
  /\ events' = << >>
  /\ UNCHANGED << caller_vars, private, other_vars, ticks, book_vars, pc, ready, subscribes,
                  confirmed >>

\* The results client.jwt() can have (TRUE: a token) where it is called, and
\* the outcomes of the write of the auth request where it is written.
JwtOutcomes == IF private THEN BOOLEAN ELSE {FALSE}
AuthOutcomes(jwt_ok) == IF private /\ jwt_ok THEN WriteOutcomes ELSE {TRUE}

\* What _connect asks of the rest client once connect_async succeeded: no
\* token ("None": no client, or a client that is not private), or the result
\* of client.jwt().
jwt(jwt_ok) ==
  IF private THEN (IF jwt_ok THEN "Ok" ELSE "Err") ELSE "None"

\* The step that returns from _connect, with what jwt(jwt_ok) was.
Connection(op, token) == [op |-> op, id |-> -1, name |-> "", jwt |-> token]

\* Mutant of auth_writes: the new socket is never authenticated.
auth_writes_never(jwt_ok, ok) == << >>

\* What _connect writes on the socket it has just opened: the auth request
\* of a private client whose jwt() succeeded.
auth_writes(jwt_ok, ok) ==
  IF private /\ jwt_ok THEN << auth_request(ok) >> ELSE << >>

\* _reader's first connection, before the loop.
connect(jwt_ok, ok) ==
  /\ pc = "connect"
  /\ ready' = FALSE
  /\ wire' = auth_writes(jwt_ok, ok)
  /\ events' = << >>
  /\ pc' = "select"
  /\ last' = Connection("connect", jwt(jwt_ok))
  /\ ticks' = 0
  /\ UNCHANGED << caller_vars, private, other_vars, book_vars, subscribes, confirmed >>

\* Mutant of resubscribe_requests: one subscribe request per registration.
RECURSIVE per_identifier(_, _, _)
per_identifier(order, oks, i) ==
  IF i > Len(order) THEN << >>
  ELSE [k \in 1 .. Len(subscriptions_by_channel[order[i]].subs) |->
          request_channel("subscribe", order[i],
                          subscriptions_by_channel[order[i]].subs[k].id, oks[i])]
         \o per_identifier(order, oks, i + 1)

resubscribe_requests_per_identifier(order, oks) == per_identifier(order, oks, 1)

\* Mutant of resubscribe_requests: the pass ends at the first failed write.
resubscribe_requests_until_error(order, oks) ==
  [i \in 1 .. (IF \E k \in 1 .. Len(order) : ~ oks[k]
                 THEN CHOOSE k \in 1 .. Len(order) :
                        ~ oks[k] /\ \A j \in 1 .. (k - 1) : oks[j]
                 ELSE Len(order)) |->
     request_channel("subscribe", order[i],
                     subscriptions_by_channel[order[i]].subs[1].id, oks[i])]

\* One subscribe request per record, carrying the Identifier of the record's
\* first subscriber, in the HashMap's iteration order.
resubscribe_requests(order, oks) ==
  [i \in 1 .. Len(order) |->
     request_channel("subscribe", order[i],
                     subscriptions_by_channel[order[i]].subs[1].id, oks[i])]

resubscribed == { n \in DOMAIN subscriptions_by_channel :
                    Len(subscriptions_by_channel[n].subs) > 0 }

\* The second half of the disconnect branch: the connection is replaced and
\* the tracked channels are resubscribed.
reconnect(jwt_ok, ok, order, oks) ==
  /\ pc = "reconnect"
  /\ ready' = FALSE
  /\ wire' = auth_writes(jwt_ok, ok) \o resubscribe_requests(order, oks)
  /\ events' = << >>
  /\ subscribes' = Count(resubscribe_requests(order, oks))
  /\ confirmed' = {}
  /\ pc' = "select"
  /\ last' = Connection("reconnect", jwt(jwt_ok))
  /\ ticks' = 0
  /\ UNCHANGED << caller_vars, private, other_vars, book_vars >>

\* ------------------------------------------- _reader: connection.next()
read(message, kinds) ==
  /\ pc = "select"
  /\ ready
  /\ message.kind \in kinds

\* A notification: decoded by the Channel of the record's first subscriber
\* and passed to every callback of the record.
on_notification(message) ==
  /\ read(message, {"Notification"})
  /\ ready' = FALSE
  /\ events' =
       IF /\ message.channel # None
          /\ message.channel[1] \in DOMAIN subscriptions_by_channel
          /\ subscriptions_by_channel[message.channel[1]].subs # << >>
         THEN LET data == subscriptions_by_channel[message.channel[1]].subs
                  channel_message == to_message(data[1].channel, message.data)
              IN  CallAll(data, channel_message)
         ELSE << >>
  /\ last' = Step("Notification", -1,
                  IF message.channel # None THEN message.channel[1] ELSE "")
  /\ wire' = << >>
  /\ UNCHANGED << caller_vars, private, other_vars, ticks, book_vars, pc, subscribes,
                  confirmed >>

\* A success response: the record named by result.channel is marked
\* connected and every callback of it is called with Connected.
connected_calls(value) == CallAll(value.subs, Connected)

on_response(message) ==
  /\ read(message, {"Success"})
  /\ ready' = FALSE
  /\ IF /\ message.channel # None
        /\ message.channel[1] \in DOMAIN subscriptions_by_channel
       THEN LET channel_name_ == message.channel[1]
                value == subscriptions_by_channel[channel_name_]
            IN  /\ subscriptions_by_channel' =
                     [subscriptions_by_channel EXCEPT
                        ![channel_name_].connected = TRUE]
                /\ events' = connected_calls(value)
                /\ confirmed' = confirmed \cup {channel_name_}
       ELSE /\ subscriptions_by_channel' = subscriptions_by_channel
            /\ events' = << >>
            /\ confirmed' = confirmed
  /\ last' = Step("Success", -1,
                  IF message.channel # None THEN message.channel[1] ELSE "")
  /\ wire' = << >>
  /\ UNCHANGED << caller_vars, private, other_vars, ticks, subscriptions_by_id, pc, subscribes >>

\* The arm of the match on the frame that takes it: a pong has no arm of its
\* own and is taken by the last one, as a binary or a close frame is.
arm(kind) == IF kind = "Pong" THEN "Other" ELSE kind

\* Mutant of on_other_frame: a frame that is not understood ends the task.
on_other_frame_fatal(message) ==
  /\ read(message, {"Error", "Malformed", "Ping", "Pong", "Other"})
  /\ ready' = FALSE
  /\ pc' = "done"
  /\ last' = Step(arm(message.kind), -1, "")
  /\ wire' = << >>
  /\ events' = << >>
  /\ UNCHANGED << caller_vars, private, other_vars, ticks, book_vars, subscribes, confirmed >>

\* An error response, a text frame that is neither a notification nor a
\* response, a ping, a pong or any other frame: logged at most.
on_other_frame(message) ==
  /\ read(message, {"Error", "Malformed", "Ping", "Pong", "Other"})
  /\ ready' = FALSE
  /\ last' = Step(arm(message.kind), -1, "")
  /\ wire' = << >>
  /\ events' = << >>
  /\ ticks' = IF message.kind = "Pong" THEN 0 ELSE ticks
  /\ UNCHANGED << caller_vars, private, other_vars, book_vars, pc, subscribes,
                  confirmed >>

\* Some(Err(e)): the error is logged.
on_read_error(message) ==
  /\ read(message, {"Err"})
  /\ ready' = FALSE
  /\ last' = Step("Err", -1, "")
  /\ wire' = << >>
  /\ events' = << >>
  /\ UNCHANGED << caller_vars, private, other_vars, ticks, book_vars, pc, subscribes,
                  confirmed >>

\* Mutant of disconnected_calls: only the callbacks of connected records are called.
RECURSIVE disconnected_calls_connected_only(_)
disconnected_calls_connected_only(order) ==
  IF order = << >> THEN << >>
  ELSE (IF subscriptions_by_channel[Head(order)].connected
          THEN CallAll(subscriptions_by_channel[Head(order)].subs, Disconnected)
          ELSE << >>)
         \o disconnected_calls_connected_only(Tail(order))

RECURSIVE disconnected_calls(_)
disconnected_calls(order) ==
  IF order = << >> THEN << >>
  ELSE CallAll(subscriptions_by_channel[Head(order)].subs, Disconnected)
         \o disconnected_calls(Tail(order))

\* Mutant of after_disconnect: the disconnect drops the records.
after_disconnect_cleared(by_channel) == EmptyMap

\* What the loop over subscriptions_by_channel.values_mut() leaves in the map.
after_disconnect(by_channel) == by_channel

\* None (end of stream), first half of the disconnect branch: every callback
\* of every record is called with Disconnected, then _connect starts.
on_disconnect(message, order) ==
  /\ read(message, {"Eof"})
  /\ ready' = FALSE
  /\ events' = disconnected_calls(order)
  /\ subscriptions_by_channel' = after_disconnect(subscriptions_by_channel)
  /\ wire' = << >>
  /\ pc' = "reconnect"
  /\ last' = Step("Eof", -1, "")
  /\ UNCHANGED << caller_vars, private, other_vars, ticks, subscriptions_by_id, subscribes, confirmed >>

\* --------------------------------------------- _reader: receiver.recv()
\* Mutant of action: the command submitted last is taken.
action_newest == receiver[Len(receiver)]

\* UnboundedReceiver::recv yields the command that has waited longest.
action == Head(receiver)

\* Mutant of recv: a command is also taken while _connect is retrying.
recv_in_outage(op) ==
  /\ pc \in {"select", "reconnect"}
  /\ ~ready
  /\ receiver # << >>
  /\ action.op = op
  /\ receiver' = Tail(receiver)

\* Mutant of recv: the select is not biased, either ready branch may be taken.
recv_unbiased(op) ==
  /\ pc = "select"
  /\ receiver # << >>
  /\ action.op = op
  /\ receiver' = Tail(receiver)

\* biased select: a command is taken only when the socket has nothing ready.
recv(op) ==
  /\ pc = "select"
  /\ ~ready
  /\ receiver # << >>
  /\ action.op = op
  /\ receiver' = Tail(receiver)

\* Mutant of vacant: every Subscribe is treated as the first for its name.
vacant_always(name) == TRUE

\* Entry::Vacant: no record for the wire name.
vacant(name) == name \notin DOMAIN subscriptions_by_channel

\* Mutant of replay: every joining callback is called with Connected.
replay_always(value) == TRUE

\* if value.0: a callback joining a connected record is called with Connected.
replay(value) == value.connected

on_subscribe(ok) ==
  /\ recv("Subscribe")
  /\ LET name == channel_name(action.channel)
         entry == Entry(action.channel, action.id, action.callback)
     IN  /\ subscriptions_by_id' = Insert(subscriptions_by_id, action.id, name)
         /\ IF ~vacant(name)
              THEN \* Entry::Occupied
                   LET value == subscriptions_by_channel[name]
                   IN  /\ events' = IF replay(value)
                                      THEN << Call(action.callback, Connected) >>
                                      ELSE << >>
                       /\ subscriptions_by_channel' =
                            [subscriptions_by_channel EXCEPT
                               ![name].subs = Append(value.subs, entry)]
                       /\ wire' = << >>
                       /\ subscribes' = subscribes
              ELSE \* Entry::Vacant
                   /\ wire' = << request_channel("subscribe", name, action.id, ok) >>
                   /\ subscribes' = [subscribes EXCEPT ![name] = @ + 1]
                   /\ subscriptions_by_channel' =
                        Insert(subscriptions_by_channel, name,
                               Value(FALSE, << entry >>))
                   /\ events' = << >>
         /\ last' = Step("Subscribe", action.id, name)
  /\ UNCHANGED << current_id, private, other_vars, ticks, pc, ready, confirmed >>

\* Mutant of elem_index: the first element is taken, whatever its Identifier.
elem_index_first(vec, identifier) == IF vec = << >> THEN 0 ELSE 1

\* The index of the first element of vec registered with identifier, 0 if none.
elem_index(vec, identifier) ==
  LET found == { idx \in 1 .. Len(vec) : vec[idx].id = identifier }
  IN  IF found = {} THEN 0
      ELSE CHOOSE idx \in found : \A other \in found : idx <= other

\* Mutant of emptied: the record is kept when its last subscriber leaves.
emptied_never(rest) == FALSE

\* vec.is_empty() after the removal.
emptied(rest) == rest = << >>

\* Mutant of on_unsubscribe: Unsubscribed is delivered for any Identifier.
on_unsubscribe_any(ok) ==
  /\ recv("Unsubscribe")
  /\ subscriptions_by_id' =
       IF action.id \in DOMAIN subscriptions_by_id
         THEN Remove(subscriptions_by_id, action.id) ELSE subscriptions_by_id
  /\ events' = << Call(action.id, Unsubscribed) >>
  /\ wire' = << >>
  /\ last' = Step("Unsubscribe", action.id, "")
  /\ UNCHANGED << current_id, private, other_vars, ticks, pc, ready,
                  subscriptions_by_channel, subscribes, confirmed >>

on_unsubscribe(ok) ==
  /\ recv("Unsubscribe")
  /\ LET identifier == action.id
         known == identifier \in DOMAIN subscriptions_by_id
         name == IF known THEN subscriptions_by_id[identifier] ELSE ""
         tracked == known /\ name \in DOMAIN subscriptions_by_channel
         vec == IF tracked THEN subscriptions_by_channel[name].subs ELSE << >>
         idx == elem_index(vec, identifier)
         rest == RemoveAt(vec, idx)
     IN  /\ subscriptions_by_id' =
              IF known THEN Remove(subscriptions_by_id, identifier)
                       ELSE subscriptions_by_id
         /\ IF idx # 0
              THEN /\ IF emptied(rest)
                        THEN /\ wire' = << request_channel("unsubscribe", name,
                                                            identifier, ok) >>
                             /\ subscribes' = [subscribes EXCEPT ![name] = 0]
                             /\ confirmed' = confirmed \ {name}
                             /\ subscriptions_by_channel' =
                                  Remove(subscriptions_by_channel, name)
                        ELSE /\ wire' = << >>
                             /\ subscribes' = subscribes
                             /\ confirmed' = confirmed
                             /\ subscriptions_by_channel' =
                                  [subscriptions_by_channel EXCEPT ![name].subs = rest]
                   /\ events' = << Call(vec[idx].callback, Unsubscribed) >>
              ELSE /\ wire' = << >>
                   /\ events' = << >>
                   /\ UNCHANGED << subscriptions_by_channel, subscribes, confirmed >>
         /\ last' = Step("Unsubscribe", identifier, name)
  /\ UNCHANGED << current_id, private, other_vars, ticks, pc, ready >>

\* Stop: the loop is left, the task returns and the receiver is dropped.
on_stop ==
  /\ recv("Stop")
  /\ pc' = "done"
  /\ receiver' = << >>
  /\ last' = Step("Stop", -1, "")
  /\ wire' = << >>
  /\ events' = << >>
  /\ UNCHANGED << current_id, private, other_vars, ticks, book_vars, ready, subscribes,
                  confirmed >>

\* ---------------------------------------------------------------- the clock
\* A heartbeat interval elapses while the manager is in its select loop.  The
\* select has no timer branch: no step of the manager follows from it.
Tick ==
  /\ pc = "select"
  /\ ticks < MaxTicks
  /\ ticks' = ticks + 1
  /\ no_step
  /\ UNCHANGED << caller_vars, private, other_vars, book_vars, pc, ready, subscribes,
                  confirmed >>

\* -------------------------------------------------------------------- Next
\* connect_async succeeds in the disconnect branch.
Established ==
  \E jwt_ok \in JwtOutcomes : \E ok \in AuthOutcomes(jwt_ok) :
    \E order \in Orderings(resubscribed) :
      \E oks \in [1 .. Len(order) -> WriteOutcomes] :
        reconnect(jwt_ok, ok, order, oks)

\* A step of the branch of connection.next().
Read ==
  \/ \E message \in Frames : on_notification(message)
  \/ \E message \in Frames : on_response(message)
  \/ \E message \in Frames : on_other_frame(message)
  \/ \E message \in Frames : on_read_error(message)
  \/ \E message \in Frames :
       \E order \in Orderings(DOMAIN subscriptions_by_channel) :
         on_disconnect(message, order)

\* A step of the branch of receiver.recv().
Command ==
  \/ \E ok \in WriteOutcomes : on_subscribe(ok)
  \/ \E ok \in WriteOutcomes : on_unsubscribe(ok)
  \/ on_stop

\* An iteration of the loop of _connect.
Attempt ==
  \/ connect_retry
  \/ \E jwt_ok \in JwtOutcomes : \E ok \in AuthOutcomes(jwt_ok) : connect(jwt_ok, ok)
  \/ Established

\* A step of the manager task.
ManagerStep == Attempt \/ Read \/ Command

Next == Callers(MaxIds, MaxQueue) \/ SocketReady \/ ManagerStep

Spec == Init /\ [][Next]_vars

\* ----------------------------------------------- the other specifications
\* The session in runs of at most MaxCalls subscribe calls.
FewNext == Callers(MaxCalls, MaxQueue) \/ SocketReady \/ ManagerStep

\* Some connection attempt of every reconnect succeeds.
ReconnectSpec == Init /\ [][FewNext]_vars /\ WF_vars(Established)

\* The spawned task is scheduled: in _connect it goes on attempting (whether
\* an attempt succeeds is the peer's choice), in the select loop it reads
\* what is ready and takes a command that is waiting when, again and again,
\* nothing is ready to be read.
StopSpec ==
  Init /\ [][Next]_vars
       /\ WF_vars(Attempt) /\ WF_vars(Read) /\ SF_vars(Command)

\* The session in runs with up to MaxPending commands waiting.
QueueNext == Callers(MaxCalls, MaxPending) \/ SocketReady \/ ManagerStep

QueueSpec == Init /\ [][QueueNext]_vars

\* The session whose handles are all dropped at some time: the last
\* sub_sender is dropped and the queue is closed.
drop ==
  /\ ~ dropped
  /\ dropped' = TRUE
  /\ no_step
  /\ UNCHANGED << caller_vars, private, subscriber_vars, rest_vars, message_vars, ticks,
                  book_vars, pc, ready, subscribes, confirmed >>

\* Mutant of on_closed: the task returns when the queue is closed.
on_closed_exits ==
  /\ pc = "select"
  /\ ~ready
  /\ receiver = << >>
  /\ dropped
  /\ pc' = "done"
  /\ last' = Step("Closed", -1, "")
  /\ wire' = << >>
  /\ events' = << >>
  /\ UNCHANGED << caller_vars, private, other_vars, ticks, book_vars, ready, subscribes,
                  confirmed >>

\* receiver.recv() yields None, the queue being closed and empty: the else
\* branch is empty and the loop goes round.
on_closed ==
  /\ pc = "select"
  /\ ~ready
  /\ receiver = << >>
  /\ dropped
  /\ last' = Step("Closed", -1, "")
  /\ wire' = << >>
  /\ events' = << >>
  /\ UNCHANGED << caller_vars, private, other_vars, ticks, book_vars, pc, ready,
                  subscribes, confirmed >>

\* A handle is used while there is one.
Held == ~ dropped /\ Callers(MaxCalls, MaxQueue)

DropNext == Held \/ drop \/ SocketReady \/ ManagerStep \/ on_closed

DropSpec == Init /\ [][DropNext]_vars

\* The session with the heartbeat intervals of the clock observed.
HeartbeatNext == Next \/ Tick

HeartbeatSpec == Init /\ [][HeartbeatNext]_vars

\* ------------------------------------------- subscribe, thread by thread
\* WebsocketManager is Clone: its clones share current_id (Arc<AtomicU64>) and
\* the queue's sender, and threads call subscribe through them at the same
\* time.  A call is two steps: the fetch_add, then the send.
Threads == 1 .. MaxThreads

task_vars ==
  << private, subscriptions_by_id, subscriptions_by_channel, pc, ready, last,
     wire, events, subscribes, confirmed, ticks, dropped >>

Idle == [pc |-> "idle", identifier |-> -1, channel |-> None]

\* Mutant of fetch_add: the counter is read and left as it is.
fetch_add_load(counter) == counter

\* AtomicU64::fetch_add(1, ..): the counter after the call, which returns
\* the counter before it.
fetch_add(counter) == counter + 1

\* let identifier = self.current_id.fetch_add(1, Ordering::Relaxed);
subscribe_fetch_add(t, channel) ==
  /\ subscribers[t].pc = "idle"
  /\ current_id < MaxIds
  /\ current_id' = fetch_add(current_id)
  /\ subscribers' =
       [subscribers EXCEPT
          ![t] = [pc |-> "send", identifier |-> current_id, channel |-> channel]]
  /\ allocated' = Append(allocated, current_id)
  /\ UNCHANGED << receiver, task_vars, rest_vars, message_vars >>

\* self.sub_sender.send(Operation::Subscribe(..)) ...?; Ok(identifier)
subscribe_send(t) ==
  /\ subscribers[t].pc = "send"
  /\ send(Subscribe(subscribers[t].channel, subscribers[t].identifier,
                    subscribers[t].identifier))
  /\ subscribers' = [subscribers EXCEPT ![t].pc = "idle"]
  /\ UNCHANGED << current_id, allocated, task_vars, rest_vars, message_vars >>

SubscribersInit ==
  /\ new
  /\ subscribers = [t \in Threads |-> Idle]
  /\ allocated = << >>
  /\ no_clients
  /\ no_calls

SubscribersNext ==
  \/ \E t \in Threads, c \in Channels : subscribe_fetch_add(t, c)
  \/ \E t \in Threads : subscribe_send(t)

SubscribersSpec == SubscribersInit /\ [][SubscribersNext]_vars

\* --------------------------------------------- rest::Client: the bearer token
\* Client is Clone and its clones share jwt: Arc<RwLock<(SystemTime, String)>>.
\* Each task makes one call of jwt() or of refresh_jwt(force_update).
Tasks == 1 .. MaxTasks

\* const JWT_UPDATE_INTERVAL: u64 = 240;
JWT_UPDATE_INTERVAL == 240

\* The clock is read in ticks of 1 / PerSecond seconds; Duration::as_secs
\* drops the fraction.
PerSecond == 2

UNIX_EPOCH == 0

\* The reading of the clock when the run starts: the epoch is longer ago than
\* the update interval.
started == (JWT_UPDATE_INTERVAL + 1) * PerSecond

\* The readings of the clock in a run: a few whole update intervals and a few
\* ticks after the start.
Readings ==
  { started + i * JWT_UPDATE_INTERVAL * PerSecond + f :
      i \in 0 .. MaxIntervals, f \in 0 .. MaxFractions }

Ok(v) == [kind |-> "Ok", value |-> v]
Err(e) == [kind |-> "Err", value |-> e]
Running == [kind |-> "None", value |-> 0]

\* Client::new: jwt: Arc::new(RwLock::new((UNIX_EPOCH, "".to_string()))).
\* The empty token is 0, the tokens the server issues are 1, 2, ...
Jwt(ts, token, writer) == [ts |-> ts, token |-> token, writer |-> writer]

Task(at, op, force_update) ==
  [pc |-> at, op |-> op, force_update |-> force_update, ts |-> UNIX_EPOCH,
   expired |-> FALSE, timestamp |-> UNIX_EPOCH, posted |-> FALSE,
   result |-> Running]

\* SystemTime::duration_since: Err when earlier is later than self.
duration_since(self, earlier) ==
  IF earlier > self THEN Err("SystemTimeError") ELSE Ok(self - earlier)

as_secs(duration) == duration \div PerSecond

\* Mutant of is_expired: a token of exactly the interval's age is expired.
is_expired_at_interval(ts) ==
  LET d == duration_since(now, ts)
  IN  IF d.kind = "Err" THEN TRUE ELSE as_secs(d.value) >= JWT_UPDATE_INTERVAL

\* SystemTime::now().duration_since(*ts)
\*   .map_or(true, |duration| duration.as_secs() > JWT_UPDATE_INTERVAL)
is_expired(ts) ==
  LET d == duration_since(now, ts)
  IN  IF d.kind = "Err" THEN TRUE ELSE as_secs(d.value) > JWT_UPDATE_INTERVAL

\* Mutant of write_free: the write guard is given out while another is held.
write_free_always == TRUE

\* self.jwt.write().await and self.jwt.read().await return once no write
\* guard is held.  (Read guards are dropped in the step that takes them.)
write_free == jwt_lock.writer = 0

\* pub async fn jwt(&self): the call.
Client_jwt(t) ==
  /\ clients[t].pc = "idle"
  /\ clients' = [clients EXCEPT ![t] = Task("check", "jwt", FALSE)]
  /\ UNCHANGED << now, jwt_lock, issued, ws_vars, subscriber_vars, message_vars >>

\* async fn check_jwt_expired(&self), and jwt()'s branch on what it returns.
Client_check_jwt_expired(t) ==
  /\ clients[t].pc = "check"
  /\ write_free
  /\ clients' =
       [clients EXCEPT
          ![t].ts = jwt_lock.ts,
          ![t].expired = is_expired(jwt_lock.ts),
          ![t].pc = IF is_expired(jwt_lock.ts) THEN "refresh" ELSE "read"]
  /\ UNCHANGED << now, jwt_lock, issued, ws_vars, subscriber_vars, message_vars >>

\* pub async fn refresh_jwt(&self, force_update: bool): the call.
Client_refresh_jwt(t, force_update) ==
  /\ clients[t].pc = "idle"
  /\ clients' = [clients EXCEPT ![t] = Task("refresh", "refresh_jwt", force_update)]
  /\ UNCHANGED << now, jwt_lock, issued, ws_vars, subscriber_vars, message_vars >>

\* Where a task goes when refresh_jwt returns Ok(()).
refreshed(t) == IF clients[t].op = "jwt" THEN "read" ELSE "done"

\* Mutant of is_jwt_expired: the token is not looked at again under the
\* write guard.
is_jwt_expired_unchecked == TRUE

\* let is_jwt_expired = SystemTime::now().duration_since(lock.0).map_or(..)
is_jwt_expired == is_expired(jwt_lock.ts)

\* refresh_jwt from the write guard to the request: the second look at the
\* token, the key, auth_headers (which reads the clock) and the POST being
\* sent; or the return without a request.
Client_refresh_jwt_locked(t) ==
  /\ clients[t].pc = "refresh"
  /\ write_free
  /\ IF is_jwt_expired \/ clients[t].force_update
       THEN IF private
              THEN /\ jwt_lock' = [jwt_lock EXCEPT !.writer = t]
                   /\ clients' =
                        [clients EXCEPT ![t].pc = "request",
                                        ![t].timestamp = now,
                                        ![t].posted = TRUE]
              ELSE /\ clients' =
                        [clients EXCEPT ![t].pc = "done",
                                        ![t].result = Err("MissingPrivateKey")]
                   /\ UNCHANGED jwt_lock
       ELSE /\ clients' =
                 [clients EXCEPT
                    ![t].pc = refreshed(t),
                    ![t].result = IF clients[t].op = "jwt" THEN Running ELSE Ok(0)]
            /\ UNCHANGED jwt_lock
  /\ UNCHANGED << now, issued, ws_vars, subscriber_vars, message_vars >>

\* refresh_jwt when auth_headers(l2_chain, signing_key, account)? fails (the
\* clock, the signature or a header value): the error is returned and the
\* guard is dropped.
Client_auth_headers_err(t) ==
  /\ clients[t].pc = "refresh"
  /\ write_free
  /\ is_jwt_expired \/ clients[t].force_update
  /\ private
  /\ clients' = [clients EXCEPT ![t].pc = "done", ![t].result = Err("AuthHeaders")]
  /\ UNCHANGED << now, jwt_lock, issued, ws_vars, subscriber_vars, message_vars >>

\* Mutant of Client_request: the write guard outlives the call that failed.
Client_request_guard_kept(t, ok) ==
  /\ clients[t].pc = "request"
  /\ clients' = [clients EXCEPT ![t].pc = "done", ![t].result = Err("Request")]
  /\ UNCHANGED << now, jwt_lock, issued, ws_vars, subscriber_vars, message_vars >>

\* The answer to POST /v1/auth: *lock = (timestamp, token) and the guard is
\* dropped, or the error is returned (and the guard is dropped).
Client_request(t, ok) ==
  /\ clients[t].pc = "request"
  /\ IF ok
       THEN /\ issued' = issued + 1
            /\ jwt_lock' = Jwt(clients[t].timestamp, issued + 1, 0)
            /\ clients' =
                 [clients EXCEPT
                    ![t].pc = refreshed(t),
                    ![t].result = IF clients[t].op = "jwt" THEN Running ELSE Ok(0)]
       ELSE /\ jwt_lock' = [jwt_lock EXCEPT !.writer = 0]
            /\ clients' =
                 [clients EXCEPT ![t].pc = "done", ![t].result = Err("Request")]
            /\ UNCHANGED issued
  /\ UNCHANGED << now, ws_vars, subscriber_vars, message_vars >>

\* jwt(): let lock = self.jwt.read().await; Ok(jwt.clone())
Client_jwt_return(t) ==
  /\ clients[t].pc = "read"
  /\ write_free
  /\ clients' = [clients EXCEPT ![t].pc = "done", ![t].result = Ok(jwt_lock.token)]
  /\ UNCHANGED << now, jwt_lock, issued, ws_vars, subscriber_vars, message_vars >>

\* Time passes: a fraction of a second, or the whole update interval.
Elapse(duration) ==
  /\ now + duration \in Readings
  /\ now' = now + duration
  /\ UNCHANGED << jwt_lock, clients, issued, ws_vars, subscriber_vars, message_vars >>

ClientInit ==
  /\ new
  /\ no_subscribers
  /\ now = started
  /\ jwt_lock = Jwt(UNIX_EPOCH, 0, 0)
  /\ clients = [t \in Tasks |-> Task("idle", "none", FALSE)]
  /\ issued = 0
  /\ no_calls

ClientNext ==
  \/ \E t \in Tasks : Client_jwt(t)
  \/ \E t \in Tasks : Client_check_jwt_expired(t)
  \/ \E t \in Tasks, force_update \in BOOLEAN : Client_refresh_jwt(t, force_update)
  \/ \E t \in Tasks : Client_refresh_jwt_locked(t)
  \/ \E t \in Tasks : Client_auth_headers_err(t)
  \/ \E t \in Tasks, ok \in BOOLEAN : Client_request(t, ok)
  \/ \E t \in Tasks : Client_jwt_return(t)
  \/ \E duration \in {1, JWT_UPDATE_INTERVAL * PerSecond} : Elapse(duration)

ClientSpec == ClientInit /\ [][ClientNext]_vars

\* ------------------------------------------------- message.rs: hashing
\* Field elements are terms: the hash functions are taken to be injective, so
\* two digests are equal when they were computed from the same values in the
\* same order.
starknet_keccak(bytes) == << "starknet_keccak", bytes >>

\* A &str of a request is the sequence of its characters, one-character
\* strings; a string literal of the source stays a literal.
Digits == { "0", "1", "2", "3", "4", "5", "6", "7", "8", "9" }
Ascii == Digits \cup { "B", "T", "C", "U", "S", "D", "P", "E", "R", "-", "a", "b" }

BTC_USD_PERP == << "B", "T", "C", "-", "U", "S", "D", "-", "P", "E", "R", "P" >>

Repeat(c, n) == [i \in 1 .. n |-> c]

\* A market that is no Cairo short string: longer than 31 characters.
TooLong == { BTC_USD_PERP \o Repeat("-", 22) }

short_string(s) == << "short_string", s >>

\* starknet_core::utils::cairo_short_string_to_felt: an error for a string of
\* more than 31 characters or with a character that is not ASCII
\*   (.map_err(|e| Error::StarknetError(e.to_string())))
cairo_short_string_to_felt(s) ==
  IF Len(s) > 31 \/ \E i \in 1 .. Len(s) : s[i] \notin Ascii
    THEN [kind |-> "Err", value |-> "StarknetError"]
    ELSE [kind |-> "Ok", value |-> short_string(s)]

\* starknet_core::crypto::compute_hash_on_elements; PedersenHasher::default(),
\* update .. update, finalize is the same chain of Pedersen hashes.
compute_hash_on_elements(elements) == [pedersen |-> elements]

\* const STARKNET_MESSAGE_PREFIX: Felt = Felt::from_raw([..])
STARKNET_MESSAGE_PREFIX == << "from_raw", "STARKNET_MESSAGE_PREFIX" >>

\* Mutant of domain_elements: the order of SNIP-12, version before chainId.
domain_elements_snip12(chain_id) ==
  << starknet_keccak("StarkNetDomain(name:felt,chainId:felt,version:felt)"),
     short_string("Paradex"), 1, chain_id >>

\* The elements domain_hash hashes.
domain_elements(chain_id) ==
  << starknet_keccak("StarkNetDomain(name:felt,chainId:felt,version:felt)"),
     short_string("Paradex"), chain_id, 1 >>

\* The body of domain_hash: what a call computes when the cache has no entry.
domain_hash_body(chain_id) ==
  [kind |-> "Ok", value |-> compute_hash_on_elements(domain_elements(chain_id))]

\* ------------------------------------------ message.rs: the DOMAIN_HASH cache
\* #[cached(ty = "SizedCache<Felt, Result<Felt>>", create = "{ SizedCache::with_size(..) }")]
\* The cache is a list of (key, value), most recently used first.
Keys(c) == { c[i].key : i \in 1 .. Len(c) }

\* The index of the entry for key in c, 0 when there is none.
cache_index(c, key) ==
  IF key \in Keys(c) THEN CHOOSE i \in 1 .. Len(c) : c[i].key = key ELSE 0

\* Mutant of cache_get: a key that is present is answered with the least
\* recently used entry.
cache_get_oldest(c, key) == IF key \in Keys(c) THEN Len(c) ELSE 0

\* SizedCache::cache_get: the entry looked up.
cache_get(c, key) == cache_index(c, key)

\* Mutant of refresh: a hit does not change the order of the entries.
refresh_fifo(c, i) == c

\* SizedCache::cache_get on a hit: the entry becomes the most recently used.
refresh(c, i) == << c[i] >> \o RemoveAt(c, i)

\* SizedCache::cache_set on a miss: the least recently used entry is evicted
\* when the cache is full.
cache_set(c, key, value) ==
  << [key |-> key, value |-> value] >> \o
    (IF Len(c) >= MaxEntries THEN SubSeq(c, 1, MaxEntries - 1) ELSE c)

\* domain_hash as the macro wraps it: the value returned, the cache afterwards,
\* and whether the value came out of the cache.
domain_hash(c, chain_id) ==
  LET i == cache_get(c, chain_id)
  IN  IF i # 0
        THEN [value |-> c[i].value, cache |-> refresh(c, i), lookup |-> "hit"]
        ELSE [value |-> domain_hash_body(chain_id),
              cache |-> cache_set(c, chain_id, domain_hash_body(chain_id)),
              lookup |-> "miss"]

\* ---------------------------------------- message.rs: quantized price and size
\* A Decimal is m * 10^e; the model's values have mantissas of at most two
\* digits.
Decimal(m, e) == [m |-> m, e |-> e]

Abs(n) == IF n < 0 THEN -n ELSE n

\* 10^8: Decimal::try_new(10_i64.pow(8), 0)
QUANTIZE_EXPONENT == 8

\* The decimal digits of Decimal::MAX = 2^96 - 1 and of i64::MAX = 2^63 - 1.
DECIMAL_MAX == << 7,9,2,2,8,1,6,2,5,1,4,2,6,4,3,3,7,5,9,3,5,4,3,9,5,0,3,3,5 >>
I64_MAX == << 9,2,2,3,3,7,2,0,3,6,8,5,4,7,7,5,8,0,7 >>

\* The number written by the first n digits.
RECURSIVE Leading(_, _)
Leading(digits, n) ==
  IF n <= 0 THEN 0 ELSE 10 * Leading(digits, n - 1) + digits[n]

\* |m| * 10^k <= max, for |m| < 100 and k >= 0: |m| <= max \div 10^k.
Within(m, k, max) ==
  \/ Len(max) - k >= 3
  \/ Abs(m) <= Leading(max, Len(max) - k)

RECURSIVE Pow10(_)
Pow10(n) == IF n = 0 THEN 1 ELSE 10 * Pow10(n - 1)

\* value * quantize_factor: Decimal's Mul panics when the product does not
\* fit the 96-bit mantissa.
Mul(value) ==
  LET k == value.e + QUANTIZE_EXPONENT
  IN  IF k >= 0 /\ ~ Within(value.m, k, DECIMAL_MAX)
        THEN [kind |-> "Panic", value |-> Decimal(0, 0)]
        ELSE [kind |-> "Ok", value |-> Decimal(value.m, k)]

\* m / 10^n without its fraction, for |m| < 100.
Trunc(m, n) ==
  IF n >= 3 THEN 0 ELSE (IF m < 0 THEN -1 ELSE 1) * (Abs(m) \div Pow10(n))

\* ToPrimitive::to_i64: the fraction is dropped (towards zero); None when the
\* integer does not fit 64 bits.
to_i64(d) ==
  IF d.e < 0
    THEN [kind |-> "Some",
          value |-> Decimal(Trunc(d.m, -d.e), 0)]
    ELSE IF Within(d.m, d.e, I64_MAX)
           THEN [kind |-> "Some", value |-> d]
           ELSE [kind |-> "None", value |-> Decimal(0, 0)]

\* (value * quantize_factor).to_i64().ok_or_else(|| Error::TypeConversionError(..))
scaled(value) ==
  LET product == Mul(value)
  IN  IF product.kind = "Panic" THEN product
      ELSE IF to_i64(product.value).kind = "None"
             THEN [kind |-> "Err", value |-> Decimal(0, 0)]
             ELSE [kind |-> "Ok", value |-> to_i64(product.value).value]

\* let price_scaled = if let Some(value) = &order_request.price { .. } else { 0 };
price_scaled(request) ==
  IF request.price = None THEN [kind |-> "Ok", value |-> Decimal(0, 0)]
  ELSE scaled(request.price[1])

size_scaled(request) == scaled(request.size)

\* ------------------------------------------------- message.rs: the messages
felt(side) == IF side = "BUY" THEN 1 ELSE 2

ORDER_TYPE_HASH ==
  starknet_keccak(
    "Order(timestamp:felt,market:felt,side:felt,orderType:felt,size:felt,price:felt)")

MODIFY_ORDER_TYPE_HASH ==
  starknet_keccak(
    "ModifyOrder(timestamp:felt,market:felt,side:felt,orderType:felt,size:felt,price:felt,id:felt)")

REQUEST_TYPE_HASH ==
  starknet_keccak(
    "Request(method:felt,path:felt,body:felt,timestamp:felt,expiration:felt)")

\* s.chars().all(|c| c.is_ascii_digit()): true of the empty string
all_is_ascii_digit(s) == \A i \in 1 .. Len(s) : s[i] \in Digits

\* The numeral without its leading zeros.
RECURSIVE Significant(_)
Significant(s) ==
  IF Len(s) > 1 /\ Head(s) = "0" THEN Significant(Tail(s)) ELSE s

\* Felt::from_dec_str(s) of a string of digits: the number it writes, and an
\* error for the empty string
\*   (.map_err(|e| Error::StarknetError(e.to_string())))
from_dec_str(s) ==
  IF Len(s) = 0 THEN [kind |-> "Err", value |-> "StarknetError"]
  ELSE [kind |-> "Ok", value |-> << "from_dec_str", Significant(s) >>]

\* fn str_to_felt(s: &str): Felt::from_dec_str for digits, a short string
\* otherwise.
str_to_felt(s) ==
  IF all_is_ascii_digit(s) THEN from_dec_str(s)
  ELSE cairo_short_string_to_felt(s)

\* What a call returns, or that it did not return.
Returns(kind, value) == [kind |-> kind, value |-> value]
Nothing == << >>

\* SigningKey::sign(&hash): the (r, s) of the key over the hash.
sign(signing_key, hash) == [signing_key |-> signing_key, hash |-> hash]

\* The elements sign_order (or, with the id, sign_modify_order) hashes into
\* the order hash.
order_elements(fn, a) ==
  << IF fn = "sign_order" THEN ORDER_TYPE_HASH ELSE MODIFY_ORDER_TYPE_HASH,
     a.timestamp,
     cairo_short_string_to_felt(a.request.market).value,
     felt(a.request.side),
     short_string(a.request.order_type),
     size_scaled(a.request).value,
     price_scaled(a.request).value >>
  \o (IF fn = "sign_order" THEN << >> ELSE << str_to_felt(a.request.id).value >>)

\* What sign_order and sign_modify_order return before they come to the
\* domain hash, if they do.
early(fn, a) ==
  IF price_scaled(a.request).kind = "Panic" THEN Returns("Panic", Nothing)
  ELSE IF price_scaled(a.request).kind = "Err"
         THEN Returns("Err", "TypeConversionError")
  ELSE IF size_scaled(a.request).kind = "Panic" THEN Returns("Panic", Nothing)
  ELSE IF size_scaled(a.request).kind = "Err"
         THEN Returns("Err", "TypeConversionError")
  ELSE IF cairo_short_string_to_felt(a.request.market).kind = "Err"
         THEN Returns("Err", "StarknetError")
  ELSE IF fn = "sign_modify_order" /\ str_to_felt(a.request.id).kind = "Err"
         THEN Returns("Err", "StarknetError")
  ELSE Returns("None", Nothing)

\* hasher.update(PREFIX); update(domain_hash(chain_id)?); update(address);
\* update(hash); hasher.finalize()
message_hash(domain, address, hash) ==
  compute_hash_on_elements(<< STARKNET_MESSAGE_PREFIX, domain, address, hash >>)

\* The arguments of a call.
Arguments(request, timestamp, chain_id) ==
  [request |-> request, signing_key |-> "key", timestamp |-> timestamp,
   chain_id |-> chain_id, address |-> "address"]

Invoked(fn, a) == [fn |-> fn, a |-> a, returned |-> Returns("None", Nothing), lookup |-> "none"]

\* The call returns; it may be the one remembered for comparison with a
\* later call.
return(value, lookup) ==
  /\ call' = [call EXCEPT !.returned = value, !.lookup = lookup]
  /\ seen' \in { seen, << [call EXCEPT !.returned = value, !.lookup = lookup] >> }

running(fn) ==
  /\ call # << >>
  /\ call.fn = fn
  /\ call.returned.kind = "None"

\* fn domain_hash(chain_id: Felt) -> Result<Felt>, called by itself.
domain_hash_call ==
  /\ running("domain_hash")
  /\ cache' = domain_hash(cache, call.a.chain_id).cache
  /\ return(domain_hash(cache, call.a.chain_id).value,
            domain_hash(cache, call.a.chain_id).lookup)
  /\ UNCHANGED << ws_vars, subscriber_vars, rest_vars >>

\* pub fn auth_message_hash(chain_id, timestamp, expiration, address)
auth_message_hash ==
  /\ running("auth_message_hash")
  /\ cache' = domain_hash(cache, call.a.chain_id).cache
  /\ return(Returns("Ok",
              message_hash(
                domain_hash(cache, call.a.chain_id).value.value,
                call.a.address,
                compute_hash_on_elements(
                  << REQUEST_TYPE_HASH, short_string("POST"), short_string("/v1/auth"),
                     short_string(""), call.a.timestamp, call.a.timestamp + 3600 >>))),
            domain_hash(cache, call.a.chain_id).lookup)
  /\ UNCHANGED << ws_vars, subscriber_vars, rest_vars >>

\* The body sign_order and sign_modify_order share.
signed(fn) ==
  /\ IF early(fn, call.a).kind # "None"
       THEN /\ return(early(fn, call.a), "none")
            /\ UNCHANGED cache
       ELSE /\ cache' = domain_hash(cache, call.a.chain_id).cache
            /\ return(Returns("Ok",
                        sign(call.a.signing_key,
                             message_hash(
                               domain_hash(cache, call.a.chain_id).value.value,
                               call.a.address,
                               compute_hash_on_elements(order_elements(fn, call.a))))),
                      domain_hash(cache, call.a.chain_id).lookup)
  /\ UNCHANGED << ws_vars, subscriber_vars, rest_vars >>

\* pub fn sign_order(order_request, signing_key, signature_timestamp_ms, chain_id, address)
sign_order ==
  /\ running("sign_order")
  /\ signed("sign_order")

\* pub fn sign_modify_order(order_request, signing_key, signature_timestamp_ms, chain_id, address)
sign_modify_order ==
  /\ running("sign_modify_order")
  /\ signed("sign_modify_order")

\* The next call, once the last one has returned.
Invoke(fn, a) ==
  /\ call.returned.kind # "None"
  /\ call' = Invoked(fn, a)
  /\ UNCHANGED << cache, seen, ws_vars, subscriber_vars, rest_vars >>

Request(market, price, size, id) ==
  [market |-> market, side |-> "BUY", order_type |-> "LIMIT", size |-> size,
   price |-> price, id |-> id]

\* ------------------------------------------------ signing, call after call
ChainIds == 1 .. MaxChains

Functions == { "domain_hash", "auth_message_hash", "sign_order", "sign_modify_order" }

\* A limit order and an order without a price.
Requests ==
  { Request(BTC_USD_PERP, Some(Decimal(15, -1)), Decimal(1, 0), << "1", "2", "3", "4" >>),
    Request(BTC_USD_PERP, None, Decimal(1, 0), << "1", "2", "3", "4" >>) }

Invocations ==
  { Invoked(fn, Arguments(r, 1, c)) : fn \in Functions, r \in Requests, c \in ChainIds }

SigningInit ==
  /\ new
  /\ no_subscribers
  /\ no_clients
  /\ cache = << >>
  /\ call \in Invocations
  /\ seen = << >>

SigningNext ==
  \/ \E i \in Invocations : Invoke(i.fn, i.a)
  \/ domain_hash_call
  \/ auth_message_hash
  \/ sign_order
  \/ sign_modify_order

SigningSpec == SigningInit /\ [][SigningNext]_vars

\* ------------------------------------------- signing, one call per request
Mantissas == { -93, -15, 1, 15, 79, 80, 92, 93 }
Exponents == { -9, -8, 0, 9, 19 }
Decimals == { Decimal(m, e) : m \in Mantissas, e \in Exponents }

Orders ==
  { Request(market, price, size, id) :
      market \in { BTC_USD_PERP } \cup TooLong,
      price \in { None } \cup { Some(d) : d \in Decimals },
      size \in Decimals,
      id \in { << "1", "2", "3", "4" >> } }

QuantizeInit ==
  /\ new
  /\ no_subscribers
  /\ no_clients
  /\ cache = << >>
  /\ call \in { Invoked(fn, Arguments(r, 1, 1)) :
                  fn \in { "sign_order", "sign_modify_order" }, r \in Orders }
  /\ seen = << >>

QuantizeNext == sign_order \/ sign_modify_order

QuantizeSpec == QuantizeInit /\ [][QuantizeNext]_vars

\* --------------------------------------- signing, one call per order id
\* Ids of every kind: empty, numerals (short, with a leading zero, longer
\* than a short string), short strings, strings too long, and strings with
\* a character that is not ASCII.
Ids ==
  { << >>, << "1", "2", "3", "4" >>, << "0", "7" >>, Repeat("1", 32),
    << "a", "b" >>, << "1", "a" >>, << "a", "-", "1" >>, Repeat("a", 31),
    Repeat("a", 32), << "é" >>, << "1", "é" >> }

Modifications ==
  { Request(market, price, size, id) :
      market \in { BTC_USD_PERP } \cup TooLong,
      price \in { None, Some(Decimal(15, -1)) },
      size \in { Decimal(1, 0), Decimal(93, 9), Decimal(93, 19) },
      id \in Ids }

ModifyInit ==
  /\ new
  /\ no_subscribers
  /\ no_clients
  /\ cache = << >>
  /\ call \in { Invoked("sign_modify_order", Arguments(r, 1, 1)) : r \in Modifications }
  /\ seen = << >>

ModifyNext == sign_modify_order

ModifySpec == ModifyInit /\ [][ModifyNext]_vars

\* ------------------------------------------------- rest.rs: the response
\* A response body is its text token by token: nothing, the tokens of a JSON
\* object, or text that is no JSON.
Open == [t |-> "{"]
Close == [t |-> "}"]
Key(s) == [t |-> "key", s |-> s]
String(s) == [t |-> "string", s |-> s]
Number(n) == [t |-> "number", n |-> n]
Null == [t |-> "null"]
Junk == [t |-> "junk"]

\* The members between the braces, as a map from the keys to the values.
RECURSIVE members(_)
members(tokens) ==
  IF Len(tokens) = 0 THEN Returns("Ok", EmptyMap)
  ELSE IF Len(tokens) = 1 \/ tokens[1].t # "key"
            \/ tokens[2].t \notin { "string", "number", "null" }
         THEN Returns("Err", Nothing)
  ELSE LET rest == members(SubSeq(tokens, 3, Len(tokens))) IN
       IF rest.kind = "Err" \/ tokens[1].s \in DOMAIN rest.value
         THEN Returns("Err", Nothing)
         ELSE Returns("Ok", Insert(rest.value, tokens[1].s, tokens[2]))

\* serde_json: the text as a JSON object
object(text) ==
  IF Len(text) < 2 \/ text[1].t # "{" \/ text[Len(text)].t # "}"
    THEN Returns("Err", Nothing)
    ELSE members(SubSeq(text, 2, Len(text) - 1))

\* #[derive(Deserialize)] struct RestError { error: Option<String>, message: String }
RestError(text) ==
  LET o == object(text) IN
  IF o.kind = "Err" THEN o
  ELSE IF "message" \notin DOMAIN o.value \/ o.value["message"].t # "string"
         THEN Returns("Err", Nothing)
  ELSE IF "error" \in DOMAIN o.value /\ o.value["error"].t = "number"
         THEN Returns("Err", Nothing)
  ELSE Returns("Ok",
         [error |-> IF "error" \in DOMAIN o.value /\ o.value["error"].t = "string"
                      THEN Some(o.value["error"].s) ELSE None,
          message |-> o.value["message"].s])

\* #[derive(Deserialize)] struct CancelByMarketResponse { market: String, message: String }
CancelByMarketResponse(text) ==
  LET o == object(text) IN
  IF o.kind = "Err" THEN o
  ELSE IF \E k \in { "market", "message" } :
            k \notin DOMAIN o.value \/ o.value[k].t # "string"
         THEN Returns("Err", Nothing)
  ELSE Returns("Ok", [market |-> o.value["market"].s, message |-> o.value["message"].s])

\* serde_json::from_str::<T>(&text)
from_str(T, text) ==
  IF T = "RestError" THEN RestError(text) ELSE CancelByMarketResponse(text)

\* StatusCode::is_success
is_success_below_400(status) == status < 400

is_success(status) == status \in 200 .. 299

\* Client::request, from the status and the text of the response on
request_result(T, status, text) ==
  IF is_success(status)
    THEN IF Len(text) = 0 THEN Returns("Err", [error |-> "RestEmptyResponse"])
         ELSE IF from_str(T, text).kind = "Err"
                THEN Returns("Err", [error |-> "DeserializationError"])
                ELSE Returns("Ok", from_str(T, text).value)
  ELSE IF Len(text) = 0
         THEN Returns("Err", [error |-> "HTTPError", status_code |-> status])
  ELSE IF from_str("RestError", text).kind = "Err"
         THEN Returns("Err", [error |-> "DeserializationError"])
  ELSE Returns("Err",
         [error |-> "ParadexError", status_code |-> status,
          paradex_error |-> from_str("RestError", text).value.error,
          message |-> from_str("RestError", text).value.message])

\* async fn request<B, T>(&self, method, path, additional_headers), once the
\* response has arrived.
Client_request_response ==
  /\ running("request")
  /\ return(request_result(call.a.T, call.a.status, call.a.text), "none")
  /\ UNCHANGED << cache, ws_vars, subscriber_vars, rest_vars >>

StatusCodes == { 199, 200, 201, 299, 300, 400, 429, 500 }

Texts ==
  { << >>,
    << Junk >>,
    << Open, Close >>,
    << Open, Key("message"), String("rate limit exceeded"), Close >>,
    << Open, Key("error"), String("RATE_LIMIT"), Key("message"), String("slow down"), Close >>,
    << Open, Key("error"), Null, Key("message"), String("slow down"), Close >>,
    << Open, Key("error"), String("RATE_LIMIT"), Close >>,
    << Open, Key("message"), Number(5), Close >>,
    << Open, Key("market"), String("BTC-USD-PERP"), Key("message"), String("cancelled"), Close >>,
    << Open, Key("market"), String("BTC-USD-PERP"), Close >>,
    << Open, Key("message"), String("cut") >> }

RequestInit ==
  /\ new
  /\ no_subscribers
  /\ no_clients
  /\ cache = << >>
  /\ call \in { Invoked("request", [T |-> "CancelByMarketResponse", status |-> status, text |-> text]) :
                  status \in StatusCodes, text \in Texts }
  /\ seen = << >>

RequestNext == Client_request_response

RequestSpec == RequestInit /\ [][RequestNext]_vars

\* ------------------------------------------------- Channel: PartialEq
\* Channel values of every variant; the Channel of ws.rs has no channel_name
\* in its OrderBook, always "snapshot", here None.
OrderBooks ==
  { [tag |-> "OrderBook", market_symbol |-> "BTC", channel_name |-> n,
     refresh_rate |-> "50ms", price_tick |-> p] :
      n \in { None, Some("snapshot"), Some("interactive") },
      p \in { None, Some("0_1") } }

Symbols(tags) == { [tag |-> t, market_symbol |-> m] : t \in tags, m \in { "BTC", "ALL" } }

Options(tags) ==
  { [tag |-> t, market_symbol |-> m] :
      t \in tags, m \in { None, Some("ALL"), Some("BTC") } }

Units(tags) == { [tag |-> t] : t \in tags }

AllChannels ==
  OrderBooks
    \cup Symbols({ "OrderBookDeltas", "BBO", "Trades" })
    \cup Options({ "FundingData", "Orders", "Fills", "FundingPayments" })
    \cup Units({ "MarketSummary", "Position", "Account", "BalanceEvents" })

\* #[derive(PartialEq, Eq)] enum Channel: the same variant with equal fields
eq(self, other) ==
  /\ self.tag = other.tag
  /\ \A field \in DOMAIN self : self[field] = other[field]

\* self == other
Channel_eq ==
  /\ running("eq")
  /\ return(Returns("Ok", eq(call.a.self, call.a.other)), "none")
  /\ UNCHANGED << cache, ws_vars, subscriber_vars, rest_vars >>

ChannelInit ==
  /\ new
  /\ no_subscribers
  /\ no_clients
  /\ cache = << >>
  /\ call \in { Invoked("eq", [self |-> a, other |-> b]) : a, b \in AllChannels }
  /\ seen = << >>

ChannelNext == Channel_eq

ChannelSpec == ChannelInit /\ [][ChannelNext]_vars

\* ------------------------------------------- ws/subscription.rs: descriptors
\* A descriptor is the name of its type and its fields.
Descriptors ==
  << [spec |-> "MarketSummarySubscription"],
     [spec |-> "BboSubscription", market_symbol |-> "BTC"],
     [spec |-> "TradesSubscription", market_symbol |-> "BTC"],
     [spec |-> "OrderBookSubscription", market_symbol |-> "BTC", channel_name |-> None,
      refresh_rate |-> "50ms", price_tick |-> None],
     [spec |-> "OrderBookSubscription", market_symbol |-> "BTC",
      channel_name |-> Some("interactive"), refresh_rate |-> "50ms", price_tick |-> None],
     [spec |-> "OrderBookDeltasSubscription", market_symbol |-> "BTC"],
     [spec |-> "FundingDataSubscription", market_symbol |-> None],
     [spec |-> "FundingDataSubscription", market_symbol |-> Some("BTC")],
     [spec |-> "OrdersSubscription", market_symbol |-> None],
     [spec |-> "OrdersSubscription", market_symbol |-> Some("BTC")],
     [spec |-> "FillsSubscription", market_symbol |-> None],
     [spec |-> "FillsSubscription", market_symbol |-> Some("BTC")],
     [spec |-> "PositionSubscription"],
     [spec |-> "AccountSubscription"],
     [spec |-> "BalanceEventsSubscription"],
     [spec |-> "FundingPaymentsSubscription", market_symbol |-> None],
     [spec |-> "FundingPaymentsSubscription", market_symbol |-> Some("BTC")] >>

\* fn into_channel(self) -> Channel, of each impl SubscriptionSpec
into_channel(self) ==
  CASE self.spec = "MarketSummarySubscription" -> [tag |-> "MarketSummary"]
    [] self.spec = "BboSubscription" ->
         [tag |-> "BBO", market_symbol |-> self.market_symbol]
    [] self.spec = "TradesSubscription" ->
         [tag |-> "Trades", market_symbol |-> self.market_symbol]
    [] self.spec = "OrderBookSubscription" ->
         [tag |-> "OrderBook", market_symbol |-> self.market_symbol,
          channel_name |-> self.channel_name, refresh_rate |-> self.refresh_rate,
          price_tick |-> self.price_tick]
    [] self.spec = "OrderBookDeltasSubscription" ->
         [tag |-> "OrderBookDeltas", market_symbol |-> self.market_symbol]
    [] self.spec = "FundingDataSubscription" ->
         [tag |-> "FundingData", market_symbol |-> self.market_symbol]
    [] self.spec = "OrdersSubscription" ->
         [tag |-> "Orders", market_symbol |-> self.market_symbol]
    [] self.spec = "FillsSubscription" ->
         [tag |-> "Fills", market_symbol |-> self.market_symbol]
    [] self.spec = "PositionSubscription" -> [tag |-> "Position"]
    [] self.spec = "AccountSubscription" -> [tag |-> "Account"]
    [] self.spec = "BalanceEventsSubscription" -> [tag |-> "BalanceEvents"]
    [] self.spec = "FundingPaymentsSubscription" ->
         [tag |-> "FundingPayments", market_symbol |-> self.market_symbol]

\* The variant named by the payload type alone.
pattern_of_payload(spec) ==
  CASE spec = "MarketSummarySubscription" -> "MarketSummary"
    [] spec = "BboSubscription" -> "BBO"
    [] spec = "TradesSubscription" -> "Trades"
    [] spec = "OrderBookSubscription" -> "OrderBook"
    [] spec = "OrderBookDeltasSubscription" -> "OrderBook"
    [] spec = "FundingDataSubscription" -> "FundingData"
    [] spec = "OrdersSubscription" -> "Orders"
    [] spec = "FillsSubscription" -> "Fills"
    [] spec = "PositionSubscription" -> "Position"
    [] spec = "AccountSubscription" -> "Account"
    [] spec = "BalanceEventsSubscription" -> "BalanceEvent"
    [] spec = "FundingPaymentsSubscription" -> "FundingPayments"

\* The Message variant in `if let Message::V(data) = message` of each extract
pattern(spec) ==
  CASE spec = "MarketSummarySubscription" -> "MarketSummary"
    [] spec = "BboSubscription" -> "BBO"
    [] spec = "TradesSubscription" -> "Trades"
    [] spec = "OrderBookSubscription" -> "OrderBook"
    [] spec = "OrderBookDeltasSubscription" -> "OrderBookDeltas"
    [] spec = "FundingDataSubscription" -> "FundingData"
    [] spec = "OrdersSubscription" -> "Orders"
    [] spec = "FillsSubscription" -> "Fills"
    [] spec = "PositionSubscription" -> "Position"
    [] spec = "AccountSubscription" -> "Account"
    [] spec = "BalanceEventsSubscription" -> "BalanceEvent"
    [] spec = "FundingPaymentsSubscription" -> "FundingPayments"

\* fn extract<'a>(message: &'a Message) -> Option<&'a Self::Payload>
extract(spec, message) ==
  IF message.variant = pattern(spec) THEN Some(message.payload) ELSE None

\* The Message values: the control events and every data variant.
Messages ==
  { Connected, Disconnected, Unsubscribed, Msg("Error", "JsonParseError") }
    \cup { Msg(v, "good") :
             v \in { "BBO", "MarketSummary", "OrderBook", "OrderBookDeltas", "Trades",
                     "FundingData", "Orders", "Fills", "Position", "Account",
                     "BalanceEvent", "FundingPayments" } }

\* D::extract(&message)
SubscriptionSpec_extract ==
  /\ running("extract")
  /\ return(Returns("Ok", extract(call.a.descriptor.spec, call.a.message)), "none")
  /\ UNCHANGED << cache, ws_vars, subscriber_vars, rest_vars >>

ExtractInit ==
  /\ new
  /\ no_subscribers
  /\ no_clients
  /\ cache = << >>
  /\ \E d \in 1 .. Len(Descriptors), m \in Messages :
       call = Invoked("extract", [descriptor |-> Descriptors[d], message |-> m])
  /\ seen = << >>

ExtractNext == SubscriptionSpec_extract

ExtractSpec == ExtractInit /\ [][ExtractNext]_vars

\* ================================================================ claims
Tracked == DOMAIN subscriptions_by_channel

\* The callbacks registered in some record.
RegisteredCallbacks ==
  UNION { { subscriptions_by_channel[n].subs[i].callback :
              i \in 1 .. Len(subscriptions_by_channel[n].subs) } : n \in Tracked }

\* How often callback c is called in calls.
Calls(calls, c) == Cardinality({ i \in 1 .. Len(calls) : calls[i].callback = c })

\* Identifier is registered: mapped to a record whose list holds it.
Registered(identifier) ==
  /\ identifier \in DOMAIN subscriptions_by_id
  /\ subscriptions_by_id[identifier] \in Tracked
  /\ \E i \in 1 .. Len(subscriptions_by_channel[subscriptions_by_id[identifier]].subs) :
       subscriptions_by_channel[subscriptions_by_id[identifier]].subs[i].id = identifier

\* ---------------------------------------------------------------- C1
C1_SubscribeStep ==
  last'.op = "Subscribe" =>
    LET W == last'.name
    IN  /\ W = channel_name(action.channel)
        /\ \A n \in WireNames \ {W} : Count(wire')[n] = 0
        /\ IF W \in Tracked
             THEN /\ wire' = << >>
                  /\ subscriptions_by_channel' =
                       [subscriptions_by_channel EXCEPT
                          ![W].subs = Append(@, Entry(action.channel, action.id,
                                                      action.callback))]
             ELSE /\ Len(wire') = 1
                  /\ wire'[1].method = "subscribe"
                  /\ wire'[1].channel = W

C1_OtherStep ==
  last'.op \notin {"Subscribe", "reconnect"} =>
    \A n \in WireNames : Count(wire')[n] = 0

C1_ExactlyOne ==
  \A n \in WireNames :
    subscribes'[n] = IF n \in DOMAIN subscriptions_by_channel' THEN 1 ELSE 0

\* C1: within a connection (any step but the reconnect that opens a new
\* one), a subscribe request for wire name W is handed to the socket exactly
\* in a step that processes a Subscribe command for a W without a record; a
\* Subscribe for a W with a record writes nothing and only appends the
\* registration.  So the subscribe requests handed to the current socket for
\* W since the last unsubscribe request for W number exactly one while W has
\* a record, however many Identifiers are registered on it, and none otherwise.
C1_OneWireSubscribe ==
  [][C1_SubscribeStep /\ C1_OtherStep /\ C1_ExactlyOne]_vars

\* A second Identifier has just joined a record: nothing was written, and one
\* subscribe request stands for both.
C1_Witness ==
  /\ last.op = "Subscribe"
  /\ wire = << >>
  /\ last.name \in Tracked
  /\ Len(subscriptions_by_channel[last.name].subs) = 2
  /\ subscribes[last.name] = 1

\* ---------------------------------------------------------------- C2
C2_UnsubscribeStep ==
  (last'.op = "Unsubscribe" /\ Registered(last'.id)) =>
    LET identifier == last'.id
        W == subscriptions_by_id[identifier]
        value == subscriptions_by_channel[W]
        mine == CHOOSE i \in 1 .. Len(value.subs) : value.subs[i].id = identifier
        others == SelectSeq(value.subs, LAMBDA e : e.id # identifier)
    IN  /\ identifier = action.id
        /\ events' = << Call(value.subs[mine].callback, Unsubscribed) >>
        /\ IF others = << >>
             THEN /\ Len(wire') = 1
                  /\ wire'[1].method = "unsubscribe"
                  /\ wire'[1].channel = W
                  /\ W \notin DOMAIN subscriptions_by_channel'
             ELSE /\ wire' = << >>
                  /\ subscriptions_by_channel' =
                       [subscriptions_by_channel EXCEPT ![W].subs = others]
                  /\ \A i \in 1 .. Len(others) :
                       /\ others[i].id \in DOMAIN subscriptions_by_id'
                       /\ subscriptions_by_id'[others[i].id] = W

\* C2: processing Unsubscribe(id) for a registered id calls the callback
\* registered under id with Unsubscribed and calls no other callback; an
\* unsubscribe request is written iff id was the last subscriber of its wire
\* channel; otherwise nothing is written and the other subscribers stay
\* registered on the record, in order.
C2_UnsubscribeOnlyDeparting == [][C2_UnsubscribeStep]_vars

\* One of two subscribers of a wire channel has just been unsubscribed: the
\* record is still there and no request was written.
C2_Witness ==
  /\ last.op = "Unsubscribe"
  /\ events = << Call(last.id, Unsubscribed) >>
  /\ wire = << >>
  /\ last.name \in Tracked
  /\ subscriptions_by_channel[last.name].subs # << >>

\* ---------------------------------------------------------------- C3
C3_DisconnectStep ==
  last'.op = "Eof" =>
    /\ \A c \in Callbacks :
         Calls(events', c) = IF c \in RegisteredCallbacks THEN 1 ELSE 0
    /\ \A i \in 1 .. Len(events') : events'[i].message = Disconnected
    /\ pc = "select"
    /\ pc' = "reconnect"
    /\ wire' = << >>

C3_ConnectStep ==
  /\ (pc # "reconnect" /\ pc' = "reconnect") => last'.op = "Eof"
  /\ last'.op \in {"connect_retry", "reconnect"} =>
       /\ pc \in {"connect", "reconnect"}
       /\ events' = << >>

\* C3: the step that reads end-of-stream calls every callback of every
\* record, connected or not, with Disconnected exactly once and calls nothing
\* else; the connection attempts of the reconnect are made only after that
\* step, and they call no callback.
C3_DisconnectedOnce == [][C3_DisconnectStep /\ C3_ConnectStep]_vars

\* End-of-stream has just been read with a connected and an unconfirmed
\* record tracked: both callbacks were called.
C3_Witness ==
  /\ last.op = "Eof"
  /\ Len(events) = 2
  /\ \E n1, n2 \in Tracked :
       /\ subscriptions_by_channel[n1].connected
       /\ ~subscriptions_by_channel[n2].connected

\* ---------------------------------------------------------------- C4
\* C4: the step that establishes the new connection after a disconnect hands
\* to the new socket exactly one subscribe request for each wire channel that
\* has a record, however many Identifiers are registered on it, and none for
\* a wire name without a record; besides the auth request nothing else is
\* written.
C4_ResubscribeOncePerChannel ==
  last.op = "reconnect" =>
    /\ \A n \in WireNames : Count(wire)[n] = IF n \in Tracked THEN 1 ELSE 0
    /\ \A i \in 1 .. Len(wire) :
         \/ wire[i].method = "auth" /\ i = 1
         \/ wire[i].method = "subscribe" /\ wire[i].channel \in Tracked

\* A reconnect with two Identifiers on one wire channel and another wire
\* name untracked.
C4_Witness ==
  /\ last.op = "reconnect"
  /\ \E n \in Tracked : Len(subscriptions_by_channel[n].subs) = 2
  /\ WireNames \ Tracked # {}

\* ---------------------------------------------------------------- C5
\* wire name -> the ordered list of (Channel, Identifier, callback).
Registrations ==
  [n \in Tracked |-> subscriptions_by_channel[n].subs]

RegisteredIds ==
  UNION { { subscriptions_by_channel[n].subs[i].id :
              i \in 1 .. Len(subscriptions_by_channel[n].subs) } : n \in Tracked }

C5_OutageStep ==
  (last'.op \in {"Eof", "connect_retry", "reconnect"} \/ pc = "reconnect") =>
    /\ Registrations' = Registrations
    /\ subscriptions_by_id' = subscriptions_by_id

C5_RemovedByUnsubscribe ==
  \A identifier \in RegisteredIds :
    identifier \notin RegisteredIds' =>
      last'.op = "Unsubscribe" /\ last'.id = identifier

\* C5: from the read of end-of-stream to the established new connection no
\* step changes the set of tracked wire channels, the ordered list of
\* registrations of any of them, or the identifier map; a registration
\* disappears only in a step that processes the Unsubscribe of its Identifier.
C5_RegistrationsSurvive == [][C5_OutageStep /\ C5_RemovedByUnsubscribe]_vars

\* A reconnect with both wire channels tracked.
C5_Witness ==
  /\ last.op = "reconnect"
  /\ Cardinality(Tracked) = 2
  /\ Cardinality(RegisteredIds) = 2

\* ---------------------------------------------------------------- C6
C6_NonEmpty ==
  \A n \in Tracked : subscriptions_by_channel[n].subs # << >>

C6_Step ==
  \A n \in WireNames :
    /\ (n \notin Tracked /\ n \in Tracked') =>
         last'.op = "Subscribe" /\ last'.name = n
    /\ (n \in Tracked /\ n \notin Tracked') =>
         /\ last'.op = "Unsubscribe"
         /\ Len(subscriptions_by_channel[n].subs) = 1
         /\ subscriptions_by_channel[n].subs[1].id = last'.id
    /\ (/\ last'.op = "Unsubscribe"
        /\ n \in Tracked
        /\ Len(subscriptions_by_channel[n].subs) = 1
        /\ subscriptions_by_channel[n].subs[1].id = last'.id) =>
         n \notin Tracked'

\* C6: every record has a non-empty subscriber list in every reachable
\* state; a record appears only in a step that processes a Subscribe for its
\* wire name, and disappears exactly in the step that processes the
\* Unsubscribe of its only remaining subscriber.
C6_RecordsNonEmpty == C6_NonEmpty /\ [][C6_NonEmpty' /\ C6_Step]_vars

\* The last subscriber of a wire channel has just been unsubscribed and the
\* record is gone.
C6_Witness ==
  /\ last.op = "Unsubscribe"
  /\ wire # << >>
  /\ last.name \notin Tracked
  /\ C6_NonEmpty

\* ---------------------------------------------------------------- C7
C7_ResponseStep ==
  (last'.op = "Success" /\ last'.name \in Tracked) =>
    LET W == last'.name
        value == subscriptions_by_channel[W]
    IN  /\ subscriptions_by_channel'[W].connected
        /\ IF W \in confirmed
             THEN events' = << >>
             ELSE events' = CallAll(value.subs, Connected)

\* C7: a success response naming a tracked wire channel marks it connected
\* and calls every callback registered on it, and no other, with Connected
\* exactly once; the callbacks are not called with Connected again by a
\* later success response read on the same connection while the record stays.
C7_ConnectedOncePerTransition == [][C7_ResponseStep]_vars

\* ---------------------------------------------------------------- C8
C8_SubscribeStep ==
  last'.op = "Subscribe" =>
    LET W == last'.name
    IN  IF W \in Tracked
          THEN events' = IF subscriptions_by_channel[W].connected
                           THEN << Call(action.callback, Connected) >>
                           ELSE << >>
          ELSE events' = << >> /\ ~subscriptions_by_channel'[W].connected

\* C8: a Subscribe processed for a wire channel whose record is connected
\* calls the joining callback, and no other, with Connected in that step; a
\* Subscribe for an unconfirmed record, or for a wire name without a record,
\* calls nothing.
C8_ReplayToJoiner == [][C8_SubscribeStep]_vars

\* A callback has just joined a connected record and was called with
\* Connected.
C8_Witness ==
  /\ last.op = "Subscribe"
  /\ events = << Call(last.id, Connected) >>
  /\ Len(subscriptions_by_channel[last.name].subs) = 2

\* ---------------------------------------------------------------- C9
\* C9: once a disconnect and reconnect have happened, a record is marked
\* connected only if a success response for it was read on the new
\* connection; and a callback joining a record not yet confirmed on the
\* current connection is not called with Connected at registration.
C9_UnconfirmedAfterReconnect ==
  /\ pc = "select" =>
       \A n \in Tracked : subscriptions_by_channel[n].connected => n \in confirmed
  /\ (last.op = "Subscribe" /\ last.name \notin confirmed) => events = << >>

C11_MissedPongsClose ==
  [][(pc = "select" /\ ticks' = ticks + 1 /\ ticks' >= 3) =>
       /\ pc' = "reconnect"
       /\ \A c \in RegisteredCallbacks : Calls(events', c) = 1]_vars

\* ---------------------------------------------------------------- C12
ConnectionOpened == last.op \in {"connect", "reconnect"}

Resumed ==
  /\ pc = "select"
  /\ last.op = "reconnect"
  /\ \A n \in WireNames : Count(wire)[n] = IF n \in Tracked THEN 1 ELSE 0

\* C13: a manager that has left the select loop for _connect stays there
\* through any number of failed attempts (it neither terminates nor drops a
\* record), and, some attempt succeeding, it eventually has the new
\* connection with every tracked wire channel resubscribed and is back in the
\* select loop.
C13_ReconnectsAndResumes ==
  /\ [][pc = "reconnect" =>
         /\ pc' \in {"reconnect", "select"}
         /\ Tracked' = Tracked]_vars
  /\ (pc = "reconnect") ~> Resumed

\* The connection was re-established with a record to resubscribe and a
\* command waiting to be serviced on it.
C13_Witness ==
  /\ Resumed
  /\ Tracked # {}
  /\ receiver # << >>

\* ---------------------------------------------------------------- C14
\* The Message variant that carries the data of a wire channel.
VariantOf(name) == IF name = "bbo.BTC" THEN "BBO" ELSE "FundingData"

C14_TrackedStep ==
  \A n \in Tracked, d \in Payloads :
    on_notification(Frame("Notification", Some(n), d)) =>
      LET subs == subscriptions_by_channel[n].subs
      IN  /\ Len(events') = Len(subs)
          /\ \A i \in 1 .. Len(subs) :
               /\ events'[i].callback = subs[i].callback
               /\ events'[i].message = events'[1].message
               /\ events'[i].message = to_message(subs[i].channel, d)
               /\ d = "good" => events'[i].message = Msg(VariantOf(n), d)
          /\ \A c \in RegisteredCallbacks :
               Calls(events', c) =
                 IF \E i \in 1 .. Len(subs) : subs[i].callback = c THEN 1 ELSE 0

C14_UntrackedStep ==
  \A channel \in FrameChannels, d \in Payloads :
    (/\ on_notification(Frame("Notification", channel, d))
     /\ (channel = None \/ channel[1] \notin Tracked)) =>
      events' = << >>

\* C14: the step that reads a notification naming a tracked wire channel
\* calls the callbacks registered on that channel, each once and in
\* registration order, all with the same Message, which is the one the
\* Channel of each of them decodes the payload to, and calls no callback of
\* another record; a notification naming no tracked wire channel calls none.
C14_NotificationDispatch == [][C14_TrackedStep /\ C14_UntrackedStep]_vars

\* A decodable notification was just delivered to the two callbacks of a
\* wire channel, in the order of their registration.
C14_Witness ==
  /\ last.op = "Notification"
  /\ Len(events) = 2
  /\ events[1].message = Msg(VariantOf(last.name), "good")
  /\ events[1].callback = subscriptions_by_channel[last.name].subs[1].callback
  /\ events[2].callback = subscriptions_by_channel[last.name].subs[2].callback

\* ---------------------------------------------------------------- C15
C15_Step ==
  \A n \in Tracked, d \in {"missing", "bad"} :
    on_notification(Frame("Notification", Some(n), d)) =>
      LET subs == subscriptions_by_channel[n].subs
      IN  /\ subs # << >>
          /\ events' = [i \in 1 .. Len(subs) |->
                          Call(subs[i].callback, Msg("Error", "JsonParseError"))]
          /\ pc' = "select"
          /\ subscriptions_by_id' = subscriptions_by_id
          /\ subscriptions_by_channel' = subscriptions_by_channel

\* C15: the step that reads a notification naming a tracked wire channel
\* whose payload is missing or does not decode calls every callback of that
\* channel with Message::Error(JsonParseError), stays in the select loop and
\* changes neither the records nor the id map.
C15_DecodeFailureIsDelivered == [][C15_Step]_vars

\* A notification that could not be decoded was just delivered as an Error
\* to both callbacks of a wire channel; the manager is in its select loop.
C15_Witness ==
  /\ last.op = "Notification"
  /\ Len(events) = 2
  /\ \A i \in 1 .. 2 : events[i].message.variant = "Error"
  /\ pc = "select"

\* ---------------------------------------------------------------- C16
Untracked(channel) == channel = None \/ channel[1] \notin Tracked

C16_NoEffectFrame ==
  \/ \E k \in {"Malformed", "Error"} : on_other_frame(Frame(k, None, ""))
  \/ \E channel \in FrameChannels, d \in Payloads :
       Untracked(channel) /\ on_notification(Frame("Notification", channel, d))
  \/ \E channel \in FrameChannels :
       Untracked(channel) /\ on_response(Frame("Success", channel, ""))

\* C16: the step that reads a text frame that is neither a notification nor
\* a response, an error response, or a notification or success response
\* that names no tracked wire channel changes neither the records (their
\* connected flags and lists) nor the id map, calls no callback, writes
\* nothing and stays in the select loop.
C16_UnmatchedFrameNoEffect ==
  [][C16_NoEffectFrame =>
       /\ subscriptions_by_id' = subscriptions_by_id
       /\ subscriptions_by_channel' = subscriptions_by_channel
       /\ events' = << >>
       /\ wire' = << >>
       /\ pc = "select"
       /\ pc' = "select"]_vars

\* A malformed frame was just read by a manager that tracks a connected
\* record; it is still in its select loop.
C16_Witness ==
  /\ last.op = "Malformed"
  /\ \E n \in Tracked : subscriptions_by_channel[n].connected
  /\ events = << >>
  /\ pc = "select"

\* ---------------------------------------------------------------- C17
\* command is the one that a step of the manager has just processed.
Processed(command) ==
  /\ last'.op = command.op
  /\ command.op \in {"Subscribe", "Unsubscribe"} => last'.id = command.id

C17_Step ==
  /\ last'.op \in {"Subscribe", "Unsubscribe", "Stop"} =>
       /\ receiver # << >>
       /\ Processed(Head(receiver))
       /\ receiver' = IF last'.op = "Stop" THEN << >> ELSE Tail(receiver)
  /\ last'.op \notin {"Subscribe", "Unsubscribe", "Stop"} =>
       \/ receiver' = receiver
       \/ /\ last'.op = "none"
          /\ pc # "done"
          /\ Len(receiver') = Len(receiver) + 1
          /\ SubSeq(receiver', 1, Len(receiver)) = receiver

\* C17: a call of the handle puts its command behind the commands that are
\* waiting; a step of the manager that processes a command processes the one
\* at the head of the queue and removes exactly it; no other step changes
\* the queue.  So the commands are processed in the order of their
\* submission, none skipped or processed twice, until a Stop is processed,
\* which drops the commands behind it.
C17_CommandsInSubmissionOrder == [][C17_Step]_vars

\* A Subscribe has just been processed while the command submitted after it
\* is still waiting.
C17_Witness ==
  /\ last.op = "Subscribe"
  /\ receiver # << >>
  /\ Head(receiver).op = "Unsubscribe"
  /\ Head(receiver).id = last.id

\* ---------------------------------------------------------------- C18
Commands == {"Subscribe", "Unsubscribe", "Stop"}
Reads == {"Notification", "Success", "Error", "Malformed", "Ping", "Other", "Err", "Eof"}

C18_Step ==
  /\ last'.op \in Commands => (pc = "select" /\ ~ready)
  /\ (pc = "select" /\ ready /\ last'.op # "none") =>
       /\ last'.op \in Reads
       /\ ~ready'
       /\ receiver' = receiver
  /\ last'.op \in Reads => (pc = "select" /\ ready)

\* C18: a step of the select loop that processes a command is taken only
\* when the socket has no read outcome ready; when one is ready the step of
\* the manager reads it and leaves the waiting commands in the queue.  (The
\* select has no third branch: there is no timer to come after them.)
C18_FramesBeforeCommands == [][C18_Step]_vars

\* A frame has just been read while a command was waiting in the queue.
C18_Witness ==
  /\ last.op \in Reads
  /\ receiver # << >>
  /\ pc = "select"

\* ---------------------------------------------------------------- C19
StopSubmitted == \E i \in 1 .. Len(receiver) : receiver[i].op = "Stop"

\* C19: once a Stop command is in the queue the manager task eventually
\* terminates, wherever it is (in its select loop or in _connect), and a
\* terminated task takes no step and calls no callback.
C19_StopTerminates ==
  /\ StopSubmitted ~> (pc = "done")
  /\ [][pc = "done" => (pc' = "done" /\ events' = << >>)]_vars

\* ---------------------------------------------------------------- C20
\* The step is a call of subscribe, unsubscribe or stop.
C20_Call == "result" \in DOMAIN last'

C20_Step ==
  /\ (C20_Call /\ pc # "done") =>
       /\ last'.result = "Ok"
       /\ Len(receiver') = Len(receiver) + 1
       /\ SubSeq(receiver', 1, Len(receiver)) = receiver
       /\ receiver'[Len(receiver')].op \in {"Subscribe", "Unsubscribe", "Stop"}
       /\ UNCHANGED << pc, subscriptions_by_id, subscriptions_by_channel >>
  /\ (C20_Call /\ pc = "done") =>
       /\ last'.result = "WebSocketSend"
       /\ receiver' = receiver
  /\ (pc # "done" /\ pc' = "done") => last'.op = "Stop"

\* C20: a call of subscribe, unsubscribe or stop made while the manager task
\* has not returned (connecting, in its select loop, or reconnecting) returns
\* Ok and leaves its command in the queue, without a step of the manager;
\* a call made after the task returned returns the WebSocketSend error and
\* queues nothing; and the task returns only by processing a Stop.
C20_CallsFailOnlyWhenStopped == [][C20_Step]_vars

\* A call has just returned Ok while the manager is reconnecting, with a
\* record that no success response has confirmed.
C20_Witness ==
  /\ "result" \in DOMAIN last
  /\ last.result = "Ok"
  /\ pc = "reconnect"
  /\ receiver # << >>
  /\ \E n \in Tracked : ~subscriptions_by_channel[n].connected

\* ---------------------------------------------------------------------
\* C21: the Identifiers returned by subscribe on one manager instance are
\* pairwise distinct and strictly increasing in the order in which they were
\* allocated, however the calls of the threads interleave.
Returning == { t \in Threads : subscribers[t].identifier # -1 }

C21_IdentifiersDistinctAndIncreasing ==
  /\ \A i, j \in 1 .. Len(allocated) : i < j => allocated[i] < allocated[j]
  /\ \A t, u \in Returning :
       t # u => subscribers[t].identifier # subscribers[u].identifier
  /\ \A t \in Returning :
       \E i \in 1 .. Len(allocated) : allocated[i] = subscribers[t].identifier
  /\ \A i, j \in 1 .. Len(receiver) : i # j => receiver[i].id # receiver[j].id

\* A thread is between its fetch_add and its send while the command of a
\* thread that was given a later Identifier is queued already.
C21_Witness ==
  \E t \in Threads :
    /\ subscribers[t].pc = "send"
    /\ \E i \in 1 .. Len(receiver) : receiver[i].id > subscribers[t].identifier

\* ---------------------------------------------------------------------
\* C22: for any callback, nothing is delivered to it before its Subscribe
\* command is processed; Unsubscribed is delivered to it exactly once, by the
\* step that processes its Unsubscribe command; and after Unsubscribed it is
\* called with nothing at all.
\* A callback is called only while its registration is in a record
\* (C22_Calls), the registration is made by its one Subscribe command and
\* taken away by the step that delivers Unsubscribed (C22_Lifetime), and a
\* callback that has left is neither queued nor registered again because
\* every Subscribe command carries a fresh Identifier (C22_Once).
Pending(c) ==
  \E i \in 1 .. Len(receiver) :
    receiver[i].op = "Subscribe" /\ receiver[i].callback = c

\* Every call of the step goes to a callback that is registered, and
\* Unsubscribed is the one and last call to the callback the step unregisters.
C22_Calls ==
  \A i \in 1 .. Len(events') :
    LET c == events'[i].callback
    IN  IF events'[i].message = Unsubscribed
          THEN /\ i = Len(events')
               /\ \A j \in 1 .. Len(events') : j # i => events'[j].callback # c
               /\ c \in RegisteredCallbacks
               /\ c \notin RegisteredCallbacks'
               /\ last'.op = "Unsubscribe" /\ last'.id = c
          ELSE /\ c \in RegisteredCallbacks'
               /\ \/ c \in RegisteredCallbacks
                  \/ last'.op = "Subscribe" /\ last'.id = c

C22_Lifetime ==
  /\ (last'.op = "Unsubscribe" /\ last'.id \in RegisteredCallbacks) =>
       \E i \in 1 .. Len(events') : events'[i] = Call(last'.id, Unsubscribed)
  /\ subscriptions_by_channel' # subscriptions_by_channel =>
       /\ \A c \in RegisteredCallbacks' \ RegisteredCallbacks :
            /\ last'.op = "Subscribe" /\ last'.id = c
            /\ receiver # << >>
            /\ Head(receiver) = Subscribe(Head(receiver).channel, c, c)
       /\ \A c \in RegisteredCallbacks \ RegisteredCallbacks' :
            \E i \in 1 .. Len(events') : events'[i] = Call(c, Unsubscribed)

C22_Once ==
  /\ \A c \in RegisteredCallbacks : c < current_id /\ ~ Pending(c)
  /\ \A i \in 1 .. Len(receiver) :
       receiver[i].op = "Subscribe" => receiver[i].callback < current_id
  /\ receiver' # receiver =>
       \A c \in Callbacks : (Pending(c)' /\ ~ Pending(c)) => c = current_id

C22_Step == C22_Calls /\ C22_Lifetime /\ C22_Once

C22_CallbackLifetime == [][C22_Step]_vars

\* Unsubscribed has just been delivered to a callback while a record with
\* other callbacks is connected.
C22_Witness ==
  /\ last.op = "Unsubscribe"
  /\ \E i \in 1 .. Len(events) : events[i].message = Unsubscribed
  /\ \E n \in Tracked : subscriptions_by_channel[n].connected

\* ---------------------------------------------------------------------
\* C23: at most one bearer-token refresh request (POST /v1/auth) of a Client
\* and its clones is in flight at any time, whatever jwt() and refresh_jwt()
\* calls run at the same time, forced ones included.
InFlight == { t \in Tasks : clients[t].pc = "request" }

C23_OneRefreshInFlight ==
  /\ Cardinality(InFlight) <= 1
  /\ \A t \in InFlight : jwt_lock.writer = t

\* A forced refresh is in flight while another task waits for the write
\* guard to refresh, too.
C23_Witness ==
  \E t, u \in Tasks :
    /\ t \in InFlight
    /\ clients[t].force_update
    /\ clients[u].pc = "refresh"

\* ---------------------------------------------------------------------
\* C24: when several callers call jwt() at the same time while the stored
\* token is expired and the first refresh succeeds, exactly one refresh
\* request is sent: every caller that gets the write guard afterwards finds
\* the token fresh when it looks again and sends none, and all callers return
\* the refreshed token.
\* The calls are at the same time: the clock has not moved since they began.
Burst ==
  /\ now = started
  /\ \A t \in Tasks : clients[t].op \in {"none", "jwt"}

Posted == { t \in Tasks : clients[t].posted }
Finished(kind) ==
  { t \in Tasks : clients[t].pc = "done" /\ clients[t].result.kind = kind }

C24_OneRefreshPerBurst ==
  Burst =>
    /\ Cardinality(Posted \ Finished("Err")) <= 1
    /\ \A t \in Posted \ Finished("Err") :
         \A u \in Posted \ {t} :
           u \in Finished("Err") /\ clients[u].timestamp <= clients[t].timestamp
    /\ \A t \in Finished("Ok") :
         /\ clients[t].result.value = jwt_lock.token
         /\ clients[t].result.value = issued
         /\ issued = 1
    /\ Finished("Ok") = Tasks => Cardinality(Posted) = 1

\* Every task has called jwt() while the token was expired, one of them has
\* sent the request and the others have found the token fresh under the
\* write guard; all have returned.
C24_Witness ==
  /\ Burst
  /\ Finished("Ok") = Tasks
  /\ \A t \in Tasks : clients[t].expired
  /\ Cardinality(Posted) = 1

\* ---------------------------------------------------------------------
\* C25 (as stated): jwt() refreshes the token if and only if the stored token
\* is older than 240 seconds when it is checked (the initial token counts as
\* expired); a successful jwt() never returns the initial empty token nor a
\* token it found older than 240 seconds without refreshing it.
Age == now - jwt_lock.ts

C25_Returns(t) ==
  Client_jwt_return(t) =>
    /\ jwt_lock.token # 0
    /\ clients[t].expired => jwt_lock.ts > clients[t].ts

C25_StatedStep ==
  \A t \in Tasks :
    /\ Client_check_jwt_expired(t) =>
         (clients'[t].pc = "refresh" <=> Age > JWT_UPDATE_INTERVAL * PerSecond)
    /\ (Client_refresh_jwt_locked(t) /\ ~ clients[t].force_update /\ private) =>
         (clients'[t].posted <=> Age > JWT_UPDATE_INTERVAL * PerSecond)
    /\ C25_Returns(t)

C25_RefreshIffOlder == [][C25_StatedStep]_vars

\* C25 (amended): the age is compared in whole seconds, the fraction
\* dropped: the token is refreshed if and only if it is at least 241 seconds
\* old, when jwt() checks it and again under the write guard.
C25_Step ==
  \A t \in Tasks :
    /\ Client_check_jwt_expired(t) =>
         (clients'[t].pc = "refresh" <=> Age >= (JWT_UPDATE_INTERVAL + 1) * PerSecond)
    /\ (Client_refresh_jwt_locked(t) /\ ~ clients[t].force_update /\ private) =>
         (clients'[t].posted <=> Age >= (JWT_UPDATE_INTERVAL + 1) * PerSecond)
    /\ C25_Returns(t)

C25_RefreshIffWholeSecondsOlder == [][C25_Step]_vars

\* jwt() has returned a refreshed token that it found more than 240 seconds
\* but less than 241 seconds old, without refreshing it.
C25_Witness ==
  \E t \in Tasks :
    /\ clients[t].pc = "done"
    /\ clients[t].op = "jwt"
    /\ clients[t].result.kind = "Ok"
    /\ ~ clients[t].expired
    /\ clients[t].ts # UNIX_EPOCH
    /\ now - clients[t].ts = JWT_UPDATE_INTERVAL * PerSecond + 1

\* ---------------------------------------------------------------------
\* C26: sign_order and sign_modify_order quantize price and size as the
\* request's value times 10^8 with the fraction dropped; whenever a quantized
\* price or size does not fit a 64-bit signed integer they return a
\* TypeConversionError and no signature; the value is never wrapped, cut or
\* saturated, and nothing else goes wrong: no other error, no abort.
\* value * 10^8 does not fit an i64.
TooLarge(value) ==
  /\ value.e + QUANTIZE_EXPONENT >= 0
  /\ ~ Within(value.m, value.e + QUANTIZE_EXPONENT, I64_MAX)

Overflowing(request) ==
  \/ request.price # None /\ TooLarge(request.price[1])
  \/ TooLarge(request.size)

\* value * 10^8 without its fraction.
Quantized(value) ==
  IF value.e + QUANTIZE_EXPONENT >= 0
    THEN Decimal(value.m, value.e + QUANTIZE_EXPONENT)
    ELSE Decimal(Trunc(value.m, -(value.e + QUANTIZE_EXPONENT)), 0)

\* The elements of the order hash a signature was made over.
Hashed(signature) == signature.hash.pedersen[4].pedersen

C26_QuantizedOrTypeConversionError ==
  (call.fn \in {"sign_order", "sign_modify_order"} /\ call.returned.kind # "None") =>
    /\ call.returned.kind # "Panic"
    /\ Overflowing(call.a.request) =>
         /\ call.returned.kind = "Err"
         /\ call.returned.value = "TypeConversionError"
    /\ call.returned.kind = "Ok" =>
         /\ Hashed(call.returned.value)[6] = Quantized(call.a.request.size)
         /\ Hashed(call.returned.value)[7] =
              (IF call.a.request.price = None THEN Decimal(0, 0)
               ELSE Quantized(call.a.request.price[1]))

\* ---------------------------------------------------------------------
\* C27: domain_hash(chain_id) hashes exactly the type hash of
\* "StarkNetDomain(name:felt,chainId:felt,version:felt)", the short string of
\* the exchange's name, chain_id and 1, in this order; and the domain hash is
\* the second element folded into the digest of the auth, order and
\* modify-order messages, after the message prefix and before the address.
Digest ==
  IF call.fn = "auth_message_hash" THEN call.returned.value
  ELSE call.returned.value.hash

C27_DomainHashInDigest ==
  call.returned.kind = "Ok" =>
    LET domain ==
          [pedersen |->
             << << "starknet_keccak",
                   "StarkNetDomain(name:felt,chainId:felt,version:felt)" >>,
                << "short_string", "Paradex" >>,
                call.a.chain_id,
                1 >>]
    IN  IF call.fn = "domain_hash"
          THEN call.returned.value = domain
          ELSE /\ Len(Digest.pedersen) = 4
               /\ Digest.pedersen[1] = STARKNET_MESSAGE_PREFIX
               /\ Digest.pedersen[2] = domain
               /\ Digest.pedersen[3] = call.a.address

\* A modify-order message was signed for a chain id other than 1 with the
\* domain hash taken from the cache.
C27_Witness ==
  /\ call.fn = "sign_modify_order"
  /\ call.returned.kind = "Ok"
  /\ call.lookup = "hit"
  /\ call.a.chain_id # 1

\* ---------------------------------------------------------------------
\* C28: every call of domain_hash returns the value the uncached computation
\* returns for its chain id, whichever entries are in the cache or were
\* evicted from it; a repeated call for a chain id still in the cache is
\* served from the cache; the cache holds at most its capacity of entries
\* and evicts the least recently used one.
Others(c, key) ==
  LET other(entry) == entry.key # key
  IN  SelectSeq(c, other)

C28_Step ==
  (call.returned.kind = "None" /\ call'.returned.kind = "Ok") =>
    LET chain_id == call.a.chain_id
    IN  /\ call.fn = "domain_hash" => call'.returned = domain_hash_body(chain_id)
        /\ call.fn # "domain_hash" =>
             [kind |-> "Ok", value |-> Digest'.pedersen[2]] = domain_hash_body(chain_id)
        /\ call'.lookup = "hit" <=> chain_id \in Keys(cache)
        /\ cache'[1] = [key |-> chain_id, value |-> domain_hash_body(chain_id)]
        /\ Others(cache', chain_id) =
             (IF chain_id \in Keys(cache) THEN Others(cache, chain_id)
              ELSE IF Len(cache) < MaxEntries THEN cache
              ELSE SubSeq(cache, 1, Len(cache) - 1))
        /\ Len(cache') <= MaxEntries
        /\ Cardinality(Keys(cache')) = Len(cache')

C28_CacheRefinesDomainHash == [][C28_Step]_vars

\* The call was served from the full cache, and the remembered earlier call
\* was for a chain id whose entry has been evicted since.
C28_Witness ==
  /\ call.lookup = "hit"
  /\ Len(cache) = MaxEntries
  /\ seen # << >>
  /\ seen[1].lookup # "none"
  /\ seen[1].a.chain_id \notin Keys(cache)

\* ---------------------------------------------------------------------
\* C30: sign_order is deterministic: two calls with the same order request,
\* key, timestamp, chain id and address return the same signature, whatever
\* was called in between and whatever the domain-hash cache holds.
C30_SignOrderDeterministic ==
  (/\ seen # << >>
   /\ call.fn = "sign_order"
   /\ call.returned.kind # "None"
   /\ seen[1].fn = call.fn
   /\ seen[1].a = call.a) =>
    seen[1].returned = call.returned

\* The earlier call computed the domain hash, the later one with the same
\* arguments found another chain id's entry in front of its own.
C30_Witness ==
  /\ seen # << >>
  /\ call.fn = "sign_order"
  /\ call.returned.kind = "Ok"
  /\ seen[1].fn = call.fn
  /\ seen[1].a = call.a
  /\ seen[1].lookup = "miss"
  /\ call.lookup = "hit"
  /\ Len(cache) = MaxEntries

\* ---------------------------------------------------------------------
\* C31: in sign_modify_order an id of ASCII digits only is hashed as the
\* decimal numeral it writes and any other id as a short string, so that an
\* id which is a valid short string or a valid decimal numeral is hashed in
\* the encoding of its characters, and an id which is neither returns an
\* encoding error and no signature.
ValidNumeral(id) == Len(id) >= 1 /\ \A i \in 1 .. Len(id) : id[i] \in Digits

ValidShortString(id) == Len(id) <= 31 /\ \A i \in 1 .. Len(id) : id[i] \in Ascii

\* The call came as far as the order id.
ReachesId(a) ==
  /\ ~ Overflowing(a.request)
  /\ a.request.market \notin TooLong

C31_IdEncodedByCharacterSet ==
  (/\ call.fn = "sign_modify_order"
   /\ call.returned.kind # "None"
   /\ ReachesId(call.a)) =>
    LET id == call.a.request.id IN
    /\ ValidNumeral(id) =>
         /\ call.returned.kind = "Ok"
         /\ Hashed(call.returned.value)[8] = << "from_dec_str", Significant(id) >>
    /\ (ValidShortString(id) /\ ~ ValidNumeral(id)) =>
         /\ call.returned.kind = "Ok"
         /\ Hashed(call.returned.value)[8] = << "short_string", id >>
    /\ (~ ValidShortString(id) /\ ~ ValidNumeral(id)) =>
         /\ call.returned.kind = "Err"
         /\ call.returned.value = "StarknetError"

\* ---------------------------------------------------------------------
\* C32: every response is classified into exactly one outcome: a 2xx status
\* with a body that parses gives Ok, a 2xx status with an empty body gives
\* RestEmptyResponse, another status with an empty body gives HTTPError with
\* the status, another status with a body that parses as {error, message}
\* (error optional) gives ParadexError with status, error and message, and a
\* body that is not empty and does not parse gives DeserializationError;
\* HTTPError and ParadexError are different kinds.
Values(text, key) ==
  { text[i + 1] : i \in { j \in 1 .. Len(text) - 1 : text[j] = Key(key) } }

\* The text is a JSON object: members between braces.
WellFormed(text) ==
  /\ Len(text) >= 2
  /\ Len(text) % 2 = 0
  /\ text[1] = Open
  /\ text[Len(text)] = Close
  /\ \A i \in 2 .. Len(text) - 1 :
       IF i % 2 = 0 THEN text[i].t = "key"
       ELSE text[i].t \in { "string", "number", "null" }

\* The object has a string for each of the keys.
HasStrings(text, keys) ==
  \A k \in keys : \E v \in Values(text, k) : v.t = "string"

ErrorBody(text) ==
  /\ WellFormed(text)
  /\ HasStrings(text, { "message" })
  /\ \A v \in Values(text, "error") : v.t \in { "string", "null" }

C32_ResponseClassified ==
  (call.fn = "request" /\ call.returned.kind # "None") =>
    LET status == call.a.status
        text == call.a.text
        outcome == call.returned
        good == status >= 200 /\ status < 300
    IN
    /\ (good /\ text = << >>) <=>
         (outcome.kind = "Err" /\ outcome.value.error = "RestEmptyResponse")
    /\ (good /\ WellFormed(text) /\ HasStrings(text, { "market", "message" })) <=>
         outcome.kind = "Ok"
    /\ outcome.kind = "Ok" =>
         /\ String(outcome.value.market) \in Values(text, "market")
         /\ String(outcome.value.message) \in Values(text, "message")
    /\ (~ good /\ text = << >>) <=>
         (outcome.kind = "Err" /\ outcome.value.error = "HTTPError")
    /\ (~ good /\ ErrorBody(text)) <=>
         (outcome.kind = "Err" /\ outcome.value.error = "ParadexError")
    /\ (outcome.kind = "Err" /\ outcome.value.error \in { "HTTPError", "ParadexError" }) =>
         outcome.value.status_code = status
    /\ (outcome.kind = "Err" /\ outcome.value.error = "ParadexError") =>
         /\ String(outcome.value.message) \in Values(text, "message")
         /\ IF outcome.value.paradex_error = None
              THEN Values(text, "error") \subseteq { Null }
              ELSE String(outcome.value.paradex_error[1]) \in Values(text, "error")
    /\ (/\ text # << >>
        /\ IF good THEN ~ (WellFormed(text) /\ HasStrings(text, { "market", "message" }))
                   ELSE ~ ErrorBody(text)) <=>
         (outcome.kind = "Err" /\ outcome.value.error = "DeserializationError")

\* A status that is no success with an error body without the optional
\* error.
C32_Witness ==
  /\ call.fn = "request"
  /\ call.returned.kind = "Err"
  /\ call.returned.value.error = "ParadexError"
  /\ call.returned.value.paradex_error = None
  /\ call.returned.value.message = "rate limit exceeded"
  /\ call.returned.value.status_code = 429

\* ---------------------------------------------------------------------
\* C33: two Channel values compare equal if and only if they produce the
\* same wire channel name: equal values have the same name, and values with
\* the same name (an absent market symbol and the symbol "ALL", an absent
\* order-book channel name and "snapshot") are equal.
C33_EqualIffSameWireName ==
  (call.fn = "eq" /\ call.returned.kind # "None") =>
    (call.returned.value <=>
       channel_name(call.a.self) = channel_name(call.a.other))

\* ---------------------------------------------------------------------
\* C34: for every subscription descriptor D and every Message m, D::extract(m)
\* returns the payload if and only if m is the data variant that the decoder
\* of D's Channel (into_channel, then to_message) produces, and None for
\* every control event and every other data variant, the one with the same
\* payload type for another channel included.
Decoded(descriptor) ==
  { to_message(into_channel(descriptor), data) : data \in Payloads }
    \ { Msg("Error", "JsonParseError") }

C34_ExtractMatchesDecoder ==
  (call.fn = "extract" /\ call.returned.kind # "None") =>
    /\ call.a.message \in Decoded(call.a.descriptor) =>
         call.returned.value = Some(call.a.message.payload)
    /\ call.a.message \notin Decoded(call.a.descriptor) =>
         call.returned.value = None

\* The order-book descriptor is given the deltas variant, with the same
\* payload type, and returns None; the deltas descriptor returns its payload.
C34_Witness ==
  /\ call.fn = "extract"
  /\ call.returned.kind = "Ok"
  /\ call.a.message = Msg("OrderBookDeltas", "good")
  /\ \/ /\ call.a.descriptor.spec = "OrderBookSubscription"
        /\ call.returned.value = None
     \/ /\ call.a.descriptor.spec = "OrderBookDeltasSubscription"
        /\ call.returned.value = Some("good")

\* ---------------------------------------------------------------------
\* C35: a socket write that fails while a subscribe, unsubscribe, auth or
\* resubscribe request is sent does not end the manager task and is reported
\* to no caller and no callback; the bookkeeping is what it is after a write
\* that succeeded: the record is created unconfirmed, or removed with
\* Unsubscribed delivered, and the resubscribe pass goes on to the other
\* records.
Failed == { i \in 1 .. Len(wire) : ~ wire[i].ok }

C35_WriteFailureOnlyLogged ==
  /\ Failed # {} =>
       /\ pc = "select"
       /\ \A k \in 1 .. Len(events) : events[k].message.variant # "Error"
       /\ result = "Ok"
  /\ \A i \in Failed :
       /\ wire[i].method = "auth" => events = << >>
       /\ (wire[i].method = "subscribe" /\ last.op = "Subscribe") =>
            /\ events = << >>
            /\ subscriptions_by_id[wire[i].id] = wire[i].channel
            /\ subscriptions_by_channel[wire[i].channel].connected = FALSE
            /\ Len(subscriptions_by_channel[wire[i].channel].subs) = 1
            /\ subscriptions_by_channel[wire[i].channel].subs[1].id = wire[i].id
       /\ wire[i].method = "unsubscribe" =>
            /\ wire[i].id \notin DOMAIN subscriptions_by_id
            /\ wire[i].channel \notin DOMAIN subscriptions_by_channel
            /\ Len(events) = 1
            /\ events[1].message = Unsubscribed
            /\ events[1].callback = wire[i].id
  /\ last.op = "reconnect" =>
       /\ events = << >>
       /\ \A n \in Tracked :
            \E i \in 1 .. Len(wire) :
              /\ wire[i] \in { request_channel("subscribe", n,
                                                subscriptions_by_channel[n].subs[1].id, ok) :
                                 ok \in WriteOutcomes }

\* The first write of a resubscribe pass over two records has failed.
C35_Witness ==
  /\ last.op = "reconnect"
  /\ Cardinality(Tracked) = 2
  /\ \E i \in Failed :
       /\ wire[i].method = "subscribe"
       /\ \E j \in (i + 1) .. Len(wire) : wire[j].method = "subscribe"

\* ---------------------------------------------------------------------
\* C36: in every state of the manager task the identifier map and the
\* records agree: an Identifier is mapped to wire name W if and only if
\* exactly one entry of the subscriber list of the record for W has that
\* Identifier, and no Identifier is in two lists or twice in one.
\* The places of the subscriber list of the record for W that hold identifier.
Places(identifier, W) ==
  { i \in 1 .. Len(subscriptions_by_channel[W].subs) :
      subscriptions_by_channel[W].subs[i].id = identifier }

C36_MapsAgree ==
  /\ \A identifier \in DOMAIN subscriptions_by_id :
       /\ subscriptions_by_id[identifier] \in Tracked
       /\ \E i \in Places(identifier, subscriptions_by_id[identifier]) :
            Places(identifier, subscriptions_by_id[identifier]) = { i }
  /\ \A W \in Tracked :
       \A i \in 1 .. Len(subscriptions_by_channel[W].subs) :
         /\ subscriptions_by_channel[W].subs[i].id \in DOMAIN subscriptions_by_id
         /\ subscriptions_by_id[subscriptions_by_channel[W].subs[i].id] = W

\* Two identifiers were registered for one wire name and one of them has
\* been unsubscribed.
C36_Witness ==
  /\ last.op = "Unsubscribe"
  /\ Cardinality(DOMAIN subscriptions_by_id) = 1
  /\ \E n \in Tracked :
       /\ Len(subscriptions_by_channel[n].subs) = 1
       /\ subscriptions_by_channel[n].subs[1].id \in DOMAIN subscriptions_by_id
       /\ subscriptions_by_channel[n].subs[1].id # last.id
       /\ last.name = n

\* ---------------------------------------------------------------------
\* C37: Unsubscribe is idempotent: an Unsubscribe for an Identifier that was
\* never registered, or that has been unsubscribed already, changes no
\* bookkeeping, writes nothing to the socket and calls no callback.
C37_Step ==
  (/\ receiver # << >>
   /\ action.op = "Unsubscribe"
   /\ action.id \notin DOMAIN subscriptions_by_id
   /\ \E ok \in WriteOutcomes : on_unsubscribe(ok)) =>
    /\ UNCHANGED << subscriptions_by_id, subscriptions_by_channel >>
    /\ UNCHANGED << subscribes, confirmed, pc >>
    /\ wire' = << >>
    /\ events' = << >>

C37_UnsubscribeIdempotent == [][C37_Step]_vars

\* An Unsubscribe for an Identifier that subscribe had given out and that is
\* registered no longer was processed while another one is registered.
C37_Witness ==
  /\ last.op = "Unsubscribe"
  /\ last.id < current_id
  /\ last.name = ""
  /\ last.id \notin DOMAIN subscriptions_by_id
  /\ DOMAIN subscriptions_by_id # {}
  /\ wire = << >>
  /\ events = << >>

\* ---------------------------------------------------------------------
\* C38: commands submitted while the manager is disconnected and retrying
\* are neither lost nor processed during the outage: the queue only grows
\* until the new connection is there and its resubscribe pass is written,
\* then the commands are taken from its head; a Subscribe for a wire name
\* that is not tracked, processed on the new connection, writes exactly one
\* subscribe request, and the resubscribe pass of a reconnect writes
\* requests for tracked names only, so not for a name whose subscribers have
\* all unsubscribed.
Subscriptions(requests) ==
  { i \in 1 .. Len(requests) : requests[i].method = "subscribe" }

C38_Step ==
  /\ pc = "reconnect" =>
       /\ Len(receiver') >= Len(receiver)
       /\ SubSeq(receiver', 1, Len(receiver)) = receiver
       /\ last'.op \notin { "Subscribe", "Unsubscribe", "Stop" }
       /\ UNCHANGED << subscriptions_by_id, subscriptions_by_channel >>
  /\ (pc = "reconnect" /\ pc' = "select") =>
       /\ receiver' = receiver
       /\ \A i \in Subscriptions(wire') : wire'[i].channel \in Tracked
       /\ \A n \in Tracked :
            \E i \in Subscriptions(wire') :
              /\ wire'[i].channel = n
              /\ \A j \in Subscriptions(wire') : wire'[j].channel = n => j = i
  /\ last'.op \in { "Subscribe", "Unsubscribe" } =>
       /\ pc = "select"
       /\ receiver # << >>
       /\ last'.op = action.op
       /\ last'.id = action.id
       /\ receiver' = Tail(receiver)
  /\ (last'.op = "Subscribe" /\ last'.name \notin Tracked) =>
       /\ Len(wire') = 1
       /\ wire'[1].method = "subscribe"
       /\ wire'[1].channel = last'.name
       /\ subscribes'[last'.name] = 1
  /\ (last'.op = "Subscribe" /\ last'.name \in Tracked) => wire' = << >>
  /\ (last'.op = "Unsubscribe" /\ Len(wire') = 1) =>
       wire'[1].channel \notin DOMAIN subscriptions_by_channel'

C39_Step ==
  /\ (pc # "done" /\ pc' = "done") =>
       /\ receiver # << >>
       /\ action.op = "Stop"
       /\ last'.op = "Stop"
  /\ (dropped /\ last'.op = "Closed") =>
       UNCHANGED << pc, ready, subscriptions_by_id, subscriptions_by_channel,
                    subscribes, confirmed >>
  /\ (dropped /\ last'.op = "Notification" /\ last'.name \in Tracked) =>
       /\ Len(events') = Len(subscriptions_by_channel[last'.name].subs)
       /\ \A i \in 1 .. Len(events') :
            events'[i].callback = subscriptions_by_channel[last'.name].subs[i].callback
  /\ (dropped /\ last'.op = "Eof") => pc' = "reconnect"
  /\ (dropped /\ pc = "reconnect") => ENABLED Established

C39_OnlyStopEndsTheTask == [][C39_Step]_vars

\* With every handle dropped and no command left, the task has reconnected
\* and resubscribed.
C39_Witness ==
  /\ dropped
  /\ receiver = << >>
  /\ last.op = "reconnect"
  /\ pc = "select"
  /\ Subscriptions(wire) # {}

\* ---------------------------------------------------------------------
\* C40: a token refresh that fails (no private key, auth_headers failing,
\* the request to the auth endpoint failing or answered with an error)
\* returns the error to its caller, leaves the stored (timestamp, token) as
\* it was and gives the write guard back, so that the next jwt() call finds
\* the token expired as before and tries again, and the guard is held only
\* by a task whose request is in flight.
Fails(t) ==
  \/ Client_request(t, FALSE)
  \/ Client_auth_headers_err(t)
  \/ /\ Client_refresh_jwt_locked(t)
     /\ ~ private
     /\ is_jwt_expired \/ clients[t].force_update

C40_Step ==
  \A t \in Tasks :
    /\ (clients[t].pc \in { "refresh", "request" } /\ Fails(t)) =>
         /\ clients'[t].pc = "done"
         /\ clients'[t].result.kind = "Err"
         /\ jwt_lock'.ts = jwt_lock.ts
         /\ jwt_lock'.token = jwt_lock.token
         /\ jwt_lock'.writer = 0
         /\ UNCHANGED issued
    /\ (clients[t].pc = "check" /\ jwt_lock.ts = UNIX_EPOCH
        /\ Client_check_jwt_expired(t)) =>
         clients'[t].pc = "refresh"
    /\ jwt_lock'.writer = t => clients'[t].pc = "request"

C40_FailedRefreshLeavesTokenAndGuard == [][C40_Step]_vars

\* A refresh has failed at the auth endpoint; a later jwt() call has found
\* the token as expired as before and has its own request in flight.
C40_Witness ==
  \E t, u \in Tasks :
    /\ clients[t].pc = "done"
    /\ clients[t].result = Err("Request")
    /\ clients[u].op = "jwt"
    /\ clients[u].pc = "request"
    /\ jwt_lock.ts = UNIX_EPOCH
    /\ jwt_lock.writer = u

====
